---------------------------- MODULE Spec2Model ----------------------------
(***************************************************************************)
(* A model of FasterReportExporter (src/index.ts) and of                   *)
(* applyReportFilters (src/puppeteerHelpers.ts).                            *)
(*                                                                         *)
(* One export call is followed from the public method to the settling of   *)
(* the promise it returns.  Every await of the source is one value of pc;  *)
(* the browser, the report page, the download subsystem and the file       *)
(* system are the environment: each awaited browser call either succeeds   *)
(* or throws, an element lookup finds the element or does not, the         *)
(* download started by the export click completes, is canceled or stays    *)
(* in progress, and fs.rename succeeds or fails.                           *)
(***************************************************************************)
EXTENDS Integers, Sequences, FiniteSets, TLC

VARIABLES
  \* configuration held by the exporter instance (private fields)
  downloadFolderPath, timeoutMillis, timeZone,
  \* the export call
  pc, flow, requestedType, exportType, result, unhandled, failedAt,
  \* the browser launched for the call
  browser, closeCount,
  \* browser.close() has thrown inside the catch of a method
  closeThrew,
  \* download capture in #exportFasterReport
  handlerOn, browserDownloadPath, printOption, downloadStarted, retries,
  pollBudget, pollIters, download, rename, files,
  \* applyReportFilters
  labelElements, reportFilters, labelTextToInputId, filterIdx, inputId,
  formOps,
  \* the options given to applyReportFilters, the targets of the browser
  \* and the page given to #exportFasterReport
  optionsTimeout, targets, newPage, reportPage,
  \* the outcome of the last setDownloadFolderPath
  folderError,
  \* the open page of the call shows the release notes of FASTER Web
  onReleaseNotes,
  \* the URL #navigateToFasterReportPage has taken the page to
  reportUrl,
  \* the time zone of the exporter when the export method in its login was
  \* called
  calledTimeZone,
  \* export calls running side by side on one exporter
  calls, launched, touched,
  \* getElementOnPageBySelector: its argument, its locals, what it has
  \* returned, the delays and lookups it has made, and where it is
  maxRetries, retry, element, returned, lookupOps, lookupPc,
  \* exportScheduledReport: its argument, the rows of the table of
  \* scheduled reports, the places of its two loops, its local page, the
  \* pages of the browser and the pages whose filters were applied
  scheduleName, rows, rowIdx, linkIdx, page, browserPages, filtered

cfgVars == <<downloadFolderPath, timeoutMillis, timeZone>>
callVars == <<pc, flow, requestedType, exportType, result, unhandled,
              failedAt>>
browserVars == <<browser, closeCount, closeThrew>>
captureVars == <<handlerOn, browserDownloadPath, printOption,
                 downloadStarted, retries,
                 pollBudget, pollIters, download, rename, files>>
filterVars == <<labelElements, reportFilters, labelTextToInputId, filterIdx,
                inputId, formOps>>
pageVars == <<optionsTimeout, targets, newPage, reportPage>>
concurrentVars == <<calls, launched, touched>>
lookupVars == <<maxRetries, retry, element, returned, lookupOps, lookupPc>>
scheduleVars == <<scheduleName, rows, rowIdx, linkIdx, page, browserPages,
                  filtered>>
vars == <<cfgVars, folderError, onReleaseNotes, reportUrl, calledTimeZone,
          callVars, browserVars, captureVars, filterVars, pageVars,
          concurrentVars, lookupVars, scheduleVars>>

---------------------------------------------------------------------------
(* Bounds of the model *)

\* timeouts tried are the multiples of TimeoutStep from -TimeoutStep to
\* MaxTimeoutSteps * TimeoutStep
TimeoutStep == 250
MaxTimeoutSteps == 1
\* the number of label elements on a report page
MaxLabels == 2
\* the number of entries of a filter mapping
MaxFilters == 2
\* the number of export calls running side by side
MaxCalls == 2
\* the number of entries of a report-parameter mapping
MaxParameters == 3

---------------------------------------------------------------------------
(* Program constants *)

defaultDelayMillis == 500

None == "none"

\* an argument left out of a call
Undefined == "undefined"

\* the page made by browser.newPage() in #getLoggedInFasterPage
LoginPage == "page"

DefaultExportTypeCSV == "CSV"

\* exportType: ReportExportType = 'PDF'
DefaultExportType == "PDF"

reportExportTypesOldExcel ==
  [PDF |-> "pdf", CSV |-> "csv", Excel |-> "xls", Word |-> "docx"]

\* reportExportTypes: output format -> file extension
reportExportTypes ==
  [PDF |-> "pdf", CSV |-> "csv", Excel |-> "xlsx", Word |-> "docx"]

ReportExportType == DOMAIN reportExportTypes

ReportTimeZone == {"Eastern", "Pacific"}

\* folders that exist on disk; os.tmpdir() is one of them
ExistingFolders == {"/tmp", "/out"}
tmpdir == "/tmp"
\* a folder path that does not exist
MissingFolder == "/missing"

\* the name the browser gives the download (allowAndName)
Guid == "guid"

TimeoutChoices == { k * TimeoutStep : k \in (-1)..MaxTimeoutSteps }

Flows == {"partOrder", "assetList", "workOrder"}

---------------------------------------------------------------------------
(* Promise outcomes *)

Pending == [state |-> "pending"]
Resolved(p) == [state |-> "resolved", path |-> p]
Rejected(e) == [state |-> "rejected", error |-> e]

---------------------------------------------------------------------------
(* Strings of the filter form.  A label text is a sequence of characters. *)

\* 'Time Zone', 'Primary Grouping' and 'Secondary Grouping' are abbreviated
\* to their initials; "1" is a digit, so that <<"1">> and <<"1", "1">> are
\* texts that are array indices when used as the key of an object.
\* a label element whose textContent is null, and one without a 'for'
NullText == <<"null">>
NullFor == "null"

LabelTexts ==
  {<<>>, <<"t">>, <<"p">>, <<"t", "p">>, <<"p", "t">>, <<"1">>, <<"1", "1">>}

SearchTexts == {<<"t">>, <<"t", "p">>, <<"1">>, <<"s">>}

FieldIds == <<"f1", "f2", "f3", "f4">>
\* the empty string
NoField == ""

RECURSIVE IncludesAt(_, _, _)
IncludesAt(text, search, i) ==
  IF i + Len(search) > Len(text) THEN FALSE
  ELSE IF SubSeq(text, i + 1, i + Len(search)) = search THEN TRUE
  ELSE IncludesAt(text, search, i + 1)

\* String.prototype.includes
Includes(text, search) == IncludesAt(text, search, 0)

\* a canonical array index: these keys of an object are enumerated first,
\* in ascending numeric order.  The only digit is "1", so the numeric order
\* of two such keys is the order of their lengths.
IsArrayIndex(key) ==
  /\ Len(key) > 0
  /\ \A i \in 1..Len(key) : key[i] = "1"

KeyBefore(a, b) ==
  IF IsArrayIndex(a)
    THEN (~IsArrayIndex(b)) \/ Len(a) < Len(b)
    ELSE FALSE

RECURSIVE InsertKey(_, _)
\* position of a new key in the enumeration order of an object
InsertKey(entries, e) ==
  IF entries = <<>> THEN <<e>>
  ELSE IF KeyBefore(e.text, Head(entries).text) THEN <<e>> \o entries
  ELSE <<Head(entries)>> \o InsertKey(Tail(entries), e)

\* obj[key] = value on an object given as its Object.entries sequence
ObjectSet(entries, key, value) ==
  IF \E i \in 1..Len(entries) : entries[i].text = key
    THEN [i \in 1..Len(entries) |->
            IF entries[i].text = key
              THEN [text |-> key, id |-> value]
              ELSE entries[i]]
    ELSE InsertKey(entries, [text |-> key, id |-> value])

RECURSIVE BuildIndex(_, _)
\* the loop over labelElements that fills labelTextToInputId
BuildIndex(labels, acc) ==
  IF labels = <<>> THEN acc
  ELSE LET l == Head(labels) IN
       IF l.text = NullText
         THEN BuildIndex(Tail(labels), acc)
         ELSE BuildIndex(Tail(labels),
                ObjectSet(acc, l.text,
                          IF l.for = NullFor THEN NoField ELSE l.for))

RECURSIVE FindInputIdLast(_, _)
FindInputIdLast(entries, labelSearchText) ==
  IF entries = <<>> THEN NoField
  ELSE IF Includes(entries[Len(entries)].text, labelSearchText)
         THEN entries[Len(entries)].id
         ELSE FindInputIdLast(SubSeq(entries, 1, Len(entries) - 1),
                              labelSearchText)

RECURSIVE FindInputId(_, _)
\* the inner loop of applyReportFilters: the id of the first entry whose
\* label text includes the search text, '' when there is none
FindInputId(entries, labelSearchText) ==
  IF entries = <<>> THEN NoField
  ELSE IF Includes(Head(entries).text, labelSearchText)
         THEN Head(entries).id
         ELSE FindInputId(Tail(entries), labelSearchText)

---------------------------------------------------------------------------
(* Control flow of one call.  The names are the awaits of the source, in   *)
(* order; a step that only pauses (delay) cannot throw.                    *)

LoginSteps ==
  <<"lg_launch", "lg_newPage", "lg_goto", "lg_idle0", "lg_findForm",
    "lg_findUser", "lg_typeUser", "lg_findPass", "lg_typePass",
    "lg_findSubmit", "lg_scrollSubmit", "lg_clickSubmit", "lg_delay1",
    "lg_idle1", "lg_checkUrl", "lg_findContinue", "lg_scrollContinue",
    "lg_clickContinue", "lg_delay2", "lg_idle2", "lg_return">>

NavSteps == <<"nv_goto", "nv_delay", "nv_idle", "af_waitLabel">>

FilterSteps ==
  <<"af_waitLabel", "af_labels", "af_lookup", "af_waitInput", "af_clear",
    "af_type", "af_blur", "af_settle", "af_waitSubmit", "af_scroll",
    "af_click", "af_delay", "af_idle", "af_return">>

WorkOrderSteps ==
  <<"wo_goto", "wo_delay", "wo_idle", "wo_findPrint", "wo_scroll",
    "wo_click", "wo_waitTarget", "wo_asPage", "wo_delay2", "wo_front",
    "wo_delay3", "wo_idle2", "ex_front">>

ExportSteps ==
  <<"ex_front", "ex_idle0", "ex_title", "ex_cdp", "ex_setBehavior",
    "ex_on", "ex_idle1", "ex_findMenu", "ex_clickMenu", "ex_delayL",
    "ex_idle2", "ex_findOption", "ex_delay", "ex_setStarted", "ex_scroll",
    "ex_clickOption", "ex_delayL2", "ex_idle3", "ex_initRetries",
    "ex_poll", "ex_finally">>

Range(seq) == { seq[i] : i \in 1..Len(seq) }

\* the method a step belongs to
StageOf(p) ==
  CASE p \in Range(LoginSteps) -> "login"
    [] p \in Range(NavSteps) \ {"af_waitLabel"} -> "navigate"
    [] p \in Range(FilterSteps) -> "filters"
    [] p \in Range(WorkOrderSteps) \ {"ex_front"} -> "workOrder"
    [] p \in Range(ExportSteps) -> "export"
    [] OTHER -> None

\* the step that follows p in seq
After(seq, p) ==
  seq[(CHOOSE i \in 1..(Len(seq) - 1) : seq[i] = p) + 1]

\* steps that await a browser call which settles or throws and has no
\* other effect on the state of the model
LoginPlain ==
  {"lg_newPage", "lg_goto", "lg_idle0", "lg_typeUser", "lg_typePass",
   "lg_scrollSubmit", "lg_clickSubmit", "lg_idle1", "lg_scrollContinue",
   "lg_clickContinue", "lg_idle2"}
LoginPause == {"lg_delay1", "lg_delay2"}
LoginFind == {"lg_findUser", "lg_findPass", "lg_findSubmit"}

LoginFindError ==
  [lg_findUser |-> "Unable to locate user name field.",
   lg_findPass |-> "Unable to locate password field.",
   lg_findSubmit |-> "Unable to locate Sign In button."]

\* the error of a browser call that throws (a timeout, a lost connection)
BrowserError == "browser call failed"

---------------------------------------------------------------------------
(* The timeout given to each wait.  A wait is issued when the step before  *)
(* it has completed, and takes its timeout from what it reads then.        *)

\* waits given { timeout: this.#timeoutMillis }
ConfiguredWaits ==
  {"lg_launch", "lg_goto", "lg_idle0", "lg_idle1", "lg_idle2", "nv_goto",
   "nv_idle", "wo_goto", "wo_idle", "wo_findPrint", "wo_waitTarget",
   "wo_idle2", "ex_idle0", "ex_idle1", "ex_findMenu", "ex_idle2",
   "ex_findOption", "ex_idle3"}

\* waits of applyReportFilters given { timeout: options.timeoutMillis }
OptionsWaits == {"af_waitInput", "af_settle", "af_idle"}

\* page.waitForSelector('label') and the wait for the submit control are
\* given no timeout
UntimedWaits == {"af_waitLabel", "af_waitSubmit"}

WaitSteps == ConfiguredWaits \cup OptionsWaits \cup UntimedWaits

\* the timeout a wait is given, as a sequence of no or one number
TimeoutGiven(step, configured, options) ==
  CASE step \in ConfiguredWaits -> <<configured>>
    [] step \in OptionsWaits -> <<options>>
    [] step \in UntimedWaits -> <<>>

---------------------------------------------------------------------------
(* Helpers for the primed call and browser variables *)

Goto(p) ==
  /\ pc' = p
  /\ UNCHANGED <<flow, requestedType, exportType, result, unhandled,
                 failedAt, browser, closeCount, closeThrew>>

\* what browser.close() throws when it throws
CloseError == "browser.close failed"

\* try { await browser.close() } catch {} in a catch: close is called,
\* and what it throws goes no further
CloseSwallowing ==
  /\ browser' = "closed"
  /\ closeCount' = closeCount + 1
  /\ closeThrew' \in BOOLEAN

\* try { await browser.close() } catch {} in the finally of the executor:
\* whether close has thrown is not recorded
CloseInFinally ==
  /\ browser' = "closed"
  /\ closeCount' = closeCount + 1
  /\ UNCHANGED closeThrew

\* a catch whose browser.close() is not inside a try of its own
CloseAndThrowUnguarded(err) ==
  /\ pc' = "done"
  /\ CloseSwallowing
  /\ result' = Rejected(IF closeThrew' THEN CloseError ELSE err)
  /\ failedAt' = StageOf(pc)
  /\ UNCHANGED <<flow, requestedType, exportType, unhandled>>

\* catch (error) { try { await browser.close() } catch {} throw error }
\* in a method whose promise is the caller's
CloseAndThrow(err) ==
  /\ pc' = "done"
  /\ result' = Rejected(err)
  /\ CloseSwallowing
  /\ failedAt' = StageOf(pc)
  /\ UNCHANGED <<flow, requestedType, exportType, unhandled>>

\* an error that leaves a method with no catch around the throwing call
ThrowOnly(err) ==
  /\ pc' = "done"
  /\ result' = Rejected(err)
  /\ failedAt' = StageOf(pc)
  /\ UNCHANGED <<flow, requestedType, exportType, unhandled, browser,
                 closeCount, closeThrew>>

---------------------------------------------------------------------------
(* Configuration *)

FolderNotChecked(folder) == TRUE

\* fs.existsSync(downloadFolderPath)
FolderExists(folder) == folder \in ExistingFolders

FolderMissing == "Download folder path does not exist"

\* setDownloadFolderPath: throws, changing nothing, when the folder does
\* not exist
SetDownloadFolderPath(folder) ==
  /\ IF FolderExists(folder)
       THEN /\ downloadFolderPath' = folder
            /\ folderError' = None
       ELSE /\ folderError' = FolderMissing
            /\ UNCHANGED downloadFolderPath
  /\ UNCHANGED <<timeoutMillis, timeZone, onReleaseNotes, calledTimeZone,
                 reportUrl, callVars, browserVars, captureVars, filterVars,
                 pageVars, concurrentVars, lookupVars, scheduleVars>>

SetTimeoutMillisBlocking(t) ==
  /\ timeoutMillis' = IF t < defaultDelayMillis THEN timeoutMillis ELSE t
  /\ UNCHANGED <<downloadFolderPath, timeZone, folderError, onReleaseNotes,
                 calledTimeZone, reportUrl, callVars, browserVars,
                 captureVars, filterVars, pageVars, concurrentVars,
                 lookupVars, scheduleVars>>

\* setTimeoutMillis: stores the value, whatever it is
SetTimeoutMillis(t) ==
  /\ timeoutMillis' = t
  /\ UNCHANGED <<downloadFolderPath, timeZone, folderError, onReleaseNotes,
                 calledTimeZone, reportUrl, callVars, browserVars,
                 captureVars, filterVars, pageVars, concurrentVars,
                 lookupVars, scheduleVars>>

SetTimeZone(tz) ==
  /\ timeZone' = tz
  /\ UNCHANGED <<downloadFolderPath, timeoutMillis, folderError,
                 onReleaseNotes, calledTimeZone, reportUrl, callVars,
                 browserVars, captureVars, filterVars, pageVars,
                 concurrentVars, lookupVars, scheduleVars>>

---------------------------------------------------------------------------
(* The public export methods and #getLoggedInFasterPage *)

\* exportPartOrderPrint, exportAssetList, exportWorkOrderCustomerPrint and
\* exportWorkOrderTechnicianPrint up to their first await
StartExport(f, t) ==
  /\ pc = "idle"
  /\ pc' = "lg_launch"
  /\ flow' = f
  /\ requestedType' = t
  /\ exportType' = IF t = Undefined THEN DefaultExportType ELSE t
  /\ calledTimeZone' = IF f = "workOrder" THEN None ELSE timeZone
  /\ UNCHANGED <<result, unhandled, failedAt, cfgVars, folderError,
                 onReleaseNotes, reportUrl, browserVars, captureVars,
                 filterVars, pageVars, concurrentVars, lookupVars,
                 scheduleVars>>

LoginCatchNoClose(err) == ThrowOnly(err)

ReleaseNotes == "release/releasenotes.aspx"

\* the page stays where it is while the call goes on, and is gone with the
\* browser when the call fails
SamePage == onReleaseNotes' = (onReleaseNotes /\ pc' # "done")

\* the time zone at the call is kept while the call is in its login
CalledKept ==
  calledTimeZone' =
    IF StageOf(pc') = "login" THEN calledTimeZone ELSE None

\* the catch of #getLoggedInFasterPage: browser?.close(), then rethrow
LoginCatch(err) ==
  IF browser = "open" THEN CloseAndThrow(err) ELSE ThrowOnly(err)

LoginLaunch ==
  /\ pc = "lg_launch"
  /\ \/ /\ pc' = "lg_newPage"
        /\ browser' = "open"
        /\ UNCHANGED <<flow, requestedType, exportType, result, unhandled,
                       failedAt, closeCount, closeThrew>>
     \/ LoginCatch(BrowserError)
  /\ SamePage
  /\ CalledKept
  /\ UNCHANGED <<cfgVars, folderError, reportUrl, pageVars, concurrentVars,
                 lookupVars, scheduleVars, captureVars, filterVars>>

\* the click on the continue control leaves the release notes
LoginStep ==
  /\ pc \in LoginPlain \cup LoginPause
  /\ \/ Goto(After(LoginSteps, pc))
     \/ /\ pc \in LoginPlain
        /\ LoginCatch(BrowserError)
  /\ IF pc = "lg_clickContinue"
       THEN onReleaseNotes' = FALSE
       ELSE SamePage
  /\ CalledKept
  /\ UNCHANGED <<cfgVars, folderError, reportUrl, pageVars, concurrentVars,
                 lookupVars, scheduleVars, captureVars, filterVars>>

\* page.$('#form_Signin'): no login form means the session is logged in,
\* and the base URL has led to the release notes or to any other page
LoginFindForm ==
  /\ pc = "lg_findForm"
  /\ \/ /\ Goto("lg_findUser")
        /\ SamePage
     \/ /\ Goto("lg_return")
        /\ onReleaseNotes' \in BOOLEAN
     \/ /\ LoginCatch(BrowserError)
        /\ SamePage
  /\ CalledKept
  /\ UNCHANGED <<cfgVars, folderError, reportUrl, pageVars, concurrentVars,
                 lookupVars, scheduleVars, captureVars, filterVars>>

\* loginFormElement.$(...) for the user name, password and sign-in button
LoginFindField ==
  /\ pc \in LoginFind
  /\ \/ Goto(After(LoginSteps, pc))
     \/ LoginCatch(LoginFindError[pc])
     \/ LoginCatch(BrowserError)
  /\ SamePage
  /\ CalledKept
  /\ UNCHANGED <<cfgVars, folderError, reportUrl, pageVars, concurrentVars,
                 lookupVars, scheduleVars, captureVars, filterVars>>

\* the page the login has led to
LoginUrls == {ReleaseNotes, "default.aspx"}

\* page.url().toLowerCase().includes('release/releasenotes.aspx')
IsReleaseNotes(url) == url = ReleaseNotes

LoginCheckUrl ==
  /\ pc = "lg_checkUrl"
  /\ \E url \in LoginUrls :
       /\ onReleaseNotes' = (url = ReleaseNotes)
       /\ IF IsReleaseNotes(url)
            THEN Goto("lg_findContinue")
            ELSE Goto("lg_return")
  /\ CalledKept
  /\ UNCHANGED <<cfgVars, folderError, reportUrl, pageVars, concurrentVars,
                 lookupVars, scheduleVars, captureVars, filterVars>>

\* page.$('#OKRadButon_input'): with no continue control the page is
\* left as it is
LoginFindContinue ==
  /\ pc = "lg_findContinue"
  /\ \/ Goto("lg_scrollContinue")
     \/ Goto("lg_return")
     \/ LoginCatch(BrowserError)
  /\ SamePage
  /\ CalledKept
  /\ UNCHANGED <<cfgVars, folderError, reportUrl, pageVars, concurrentVars,
                 lookupVars, scheduleVars, captureVars, filterVars>>

\* the arguments of #navigateToFasterReportPage are evaluated when
\* #getLoggedInFasterPage has returned: the 'Time Zone' value is read here
FiltersOf(f) ==
  IF f = "partOrder"
    THEN <<[label |-> <<"t">>, value |-> timeZone]>>
    ELSE <<[label |-> <<"t">>, value |-> timeZone],
           [label |-> <<"p">>, value |-> "Organization"],
           [label |-> <<"s">>, value |-> "Department"]>>

StepAfterLoginExport(f) == "ex_front"

\* what an export method awaits when #getLoggedInFasterPage has returned:
\* page.goto of #exportWorkOrderPrint or of #navigateToFasterReportPage
StepAfterLogin(f) == IF f = "workOrder" THEN "wo_goto" ELSE "nv_goto"

\* #getLoggedInFasterPage returns; the page.goto that follows takes the
\* page elsewhere
LoginReturn ==
  /\ pc = "lg_return"
  /\ Goto(StepAfterLogin(flow))
  /\ onReleaseNotes' = FALSE
  /\ reportFilters' =
       IF flow = "workOrder" THEN reportFilters ELSE FiltersOf(flow)
  /\ CalledKept
  /\ UNCHANGED <<cfgVars, folderError, reportUrl, pageVars, concurrentVars,
                 lookupVars, scheduleVars, captureVars, labelElements,
                 labelTextToInputId, filterIdx, inputId, formOps>>

---------------------------------------------------------------------------
(* #navigateToFasterReportPage *)

ReportViewerPath == "/Domains/Reports/ReportViewer.aspx"

\* no report URL has been navigated to
NoUrl == [path |-> None, query |-> <<>>]

\* the report key each export method hands to #navigateToFasterReportPage
ReportKeyOf(f) ==
  IF f = "partOrder"
    THEN "/Part Order Print/W299 - OrderPrint"
    ELSE "/Assets/W114 - Asset Master List"

\* the order number of exportPartOrderPrint, and Number.prototype.toString
OrderNumber == 1234
toString == [n \in {OrderNumber} |-> "1234"]

\* Object.entries of the reportParameters of each export method
ReportParametersOf(f) ==
  IF f = "partOrder"
    THEN <<[key |-> "OrderID", value |-> toString[OrderNumber]],
           [key |-> "ReportType", value |-> "S"],
           [key |-> "Domain", value |-> "Inventory"]>>
    ELSE <<[key |-> "ReportType", value |-> "S"],
           [key |-> "Domain", value |-> "Assets"],
           [key |-> "Parent", value |-> "Reports"]>>

\* the entries of query without those of the key
RECURSIVE WithoutKey(_, _)
WithoutKey(query, key) ==
  IF query = <<>> THEN <<>>
  ELSE IF Head(query).key = key THEN WithoutKey(Tail(query), key)
  ELSE <<Head(query)>> \o WithoutKey(Tail(query), key)

\* URLSearchParams.set: the first entry of the key takes the value and
\* the others are removed; with no entry of the key one is appended
RECURSIVE SearchParamsSet(_, _, _)
SearchParamsSet(query, key, value) ==
  IF query = <<>> THEN <<[key |-> key, value |-> value]>>
  ELSE IF Head(query).key = key
         THEN <<[key |-> key, value |-> value]>>
                \o WithoutKey(Tail(query), key)
         ELSE <<Head(query)>> \o SearchParamsSet(Tail(query), key, value)

\* the loop over Object.entries(reportParameters)
RECURSIVE SetParameters(_, _)
SetParameters(query, entries) ==
  IF entries = <<>> THEN query
  ELSE SetParameters(SearchParamsSet(query, Head(entries).key,
                                     Head(entries).value),
                     Tail(entries))

ReportUrlNoKey(reportKey, reportParameters) ==
  [path |-> ReportViewerPath,
   query |-> SetParameters(<<>>, reportParameters)]

\* new URL(...), searchParams.set('R', reportKey) and the loop
ReportUrl(reportKey, reportParameters) ==
  [path |-> ReportViewerPath,
   query |-> SetParameters(SearchParamsSet(<<>>, "R", reportKey),
                           reportParameters)]

NavigateStep ==
  /\ pc \in {"nv_goto", "nv_delay", "nv_idle"}
  /\ \/ /\ Goto(After(NavSteps, pc))
        /\ optionsTimeout' =
             IF pc = "nv_idle" THEN timeoutMillis ELSE optionsTimeout
        /\ reportUrl' =
             IF pc = "nv_goto"
               THEN ReportUrl(ReportKeyOf(flow), ReportParametersOf(flow))
               ELSE reportUrl
     \/ /\ pc # "nv_delay"
        /\ CloseAndThrow(BrowserError)
        /\ UNCHANGED <<optionsTimeout, reportUrl>>
  /\ UNCHANGED <<cfgVars, folderError, onReleaseNotes, calledTimeZone,
                 targets, newPage, reportPage, concurrentVars, lookupVars,
                 scheduleVars, captureVars, filterVars>>

---------------------------------------------------------------------------
(* applyReportFilters, called from #navigateToFasterReportPage, whose      *)
(* catch closes the browser and rethrows                                   *)

FormOp(op, id, value) == [op |-> op, id |-> id, value |-> value]

\* options.timeoutMillis lives as long as the call of applyReportFilters
FilterGoto(p) ==
  /\ Goto(p)
  /\ UNCHANGED optionsTimeout

FilterThrow(err) ==
  /\ CloseAndThrow(err)
  /\ optionsTimeout' = 0

\* page.waitForSelector('label')
AfWaitLabel ==
  /\ pc = "af_waitLabel"
  /\ \/ /\ labelElements # <<>>
        /\ FilterGoto("af_labels")
     \/ FilterThrow(BrowserError)
  /\ UNCHANGED <<cfgVars, folderError, reportUrl, onReleaseNotes,
                 calledTimeZone, targets, newPage, reportPage, concurrentVars,
                 lookupVars, scheduleVars, captureVars, filterVars>>

\* page.$$('label') and the loop that records text and 'for' of each label
AfLabels ==
  /\ pc = "af_labels"
  /\ \/ /\ FilterGoto("af_lookup")
        /\ labelTextToInputId' = BuildIndex(labelElements, <<>>)
        /\ filterIdx' = 1
     \/ /\ FilterThrow(BrowserError)
        /\ UNCHANGED <<labelTextToInputId, filterIdx>>
  /\ UNCHANGED <<cfgVars, folderError, reportUrl, onReleaseNotes,
                 calledTimeZone, targets, newPage, reportPage, concurrentVars,
                 lookupVars, scheduleVars, captureVars, labelElements,
                 reportFilters, inputId, formOps>>

NoInputIdUnchecked(id) == FALSE

\* inputId === ''
NoInputId(id) == id = NoField

\* a loop that passes over a filter with no label and goes on to the next
AfLookupSkipping ==
  /\ pc = "af_lookup"
  /\ IF filterIdx > Len(reportFilters)
       THEN /\ FilterGoto("af_waitSubmit")
            /\ UNCHANGED <<inputId, filterIdx>>
       ELSE LET found == FindInputId(labelTextToInputId,
                                     reportFilters[filterIdx].label) IN
            /\ inputId' = found
            /\ IF NoInputId(found)
                 THEN /\ FilterGoto("af_lookup")
                      /\ filterIdx' = filterIdx + 1
                 ELSE /\ FilterGoto("af_waitInput")
                      /\ UNCHANGED filterIdx
  /\ UNCHANGED <<cfgVars, folderError, reportUrl, onReleaseNotes,
                 calledTimeZone, targets, newPage, reportPage, concurrentVars,
                 lookupVars, scheduleVars, captureVars, labelElements,
                 reportFilters, labelTextToInputId, formOps>>

\* the head of the loop over Object.entries(reportFilters) and the search
\* of the index
AfLookup ==
  /\ pc = "af_lookup"
  /\ IF filterIdx > Len(reportFilters)
       THEN /\ FilterGoto("af_waitSubmit")
            /\ UNCHANGED inputId
       ELSE LET found == FindInputId(labelTextToInputId,
                                     reportFilters[filterIdx].label) IN
            /\ inputId' = found
            /\ IF NoInputId(found)
                 THEN FilterThrow("No filter found with label")
                 ELSE FilterGoto("af_waitInput")
  /\ UNCHANGED <<cfgVars, folderError, reportUrl, onReleaseNotes,
                 calledTimeZone, targets, newPage, reportPage, concurrentVars,
                 lookupVars, scheduleVars, captureVars, labelElements,
                 reportFilters, labelTextToInputId, filterIdx, formOps>>

\* page.waitForSelector(`#${inputId}`)
AfWaitInput ==
  /\ pc = "af_waitInput"
  /\ formOps' = Append(formOps, FormOp("waitForSelector", inputId, ""))
  /\ \/ FilterGoto("af_clear")
     \/ FilterThrow("No element found with id")
     \/ FilterThrow(BrowserError)
  /\ UNCHANGED <<cfgVars, folderError, reportUrl, onReleaseNotes,
                 calledTimeZone, targets, newPage, reportPage, concurrentVars,
                 lookupVars, scheduleVars, captureVars, labelElements,
                 reportFilters, labelTextToInputId, filterIdx, inputId>>

\* clearing the value, typing the new one, blurring the field
AfFill ==
  /\ pc \in {"af_clear", "af_type", "af_blur"}
  /\ formOps' =
       Append(formOps,
              FormOp(pc, inputId,
                     IF pc = "af_type"
                       THEN reportFilters[filterIdx].value ELSE ""))
  /\ \/ FilterGoto(After(FilterSteps, pc))
     \/ FilterThrow(BrowserError)
  /\ UNCHANGED <<cfgVars, folderError, reportUrl, onReleaseNotes,
                 calledTimeZone, targets, newPage, reportPage, concurrentVars,
                 lookupVars, scheduleVars, captureVars, labelElements,
                 reportFilters, labelTextToInputId, filterIdx, inputId>>

SeveralFiltersOrOne(filters) == Len(filters) > 0

\* Object.keys(reportFilters).length > 1
SeveralFilters(filters) == Len(filters) > 1

\* the pause and network-idle wait after a fill, when there are several
\* filters; then the next filter
AfSettle ==
  /\ pc = "af_settle"
  /\ IF SeveralFilters(reportFilters)
       THEN \/ /\ FilterGoto("af_lookup")
               /\ formOps' = Append(formOps, FormOp("settle", inputId, ""))
               /\ filterIdx' = filterIdx + 1
            \/ /\ FilterThrow(BrowserError)
               /\ UNCHANGED <<formOps, filterIdx>>
       ELSE /\ FilterGoto("af_lookup")
            /\ filterIdx' = filterIdx + 1
            /\ UNCHANGED formOps
  /\ UNCHANGED <<cfgVars, folderError, reportUrl, onReleaseNotes,
                 calledTimeZone, targets, newPage, reportPage, concurrentVars,
                 lookupVars, scheduleVars, captureVars, labelElements,
                 reportFilters, labelTextToInputId, inputId>>

\* page.waitForSelector('a:has(input[type="submit"])'); with no element the
\* scroll and the click are skipped
AfWaitSubmit ==
  /\ pc = "af_waitSubmit"
  /\ \/ FilterGoto("af_scroll")
     \/ FilterGoto("af_delay")
     \/ FilterThrow(BrowserError)
  /\ UNCHANGED <<cfgVars, folderError, reportUrl, onReleaseNotes,
                 calledTimeZone, targets, newPage, reportPage, concurrentVars,
                 lookupVars, scheduleVars, captureVars, filterVars>>

AfSubmit ==
  /\ pc \in {"af_scroll", "af_click"}
  /\ \/ /\ FilterGoto(After(FilterSteps, pc))
        /\ formOps' = Append(formOps, FormOp(pc, "submit", ""))
     \/ /\ FilterThrow(BrowserError)
        /\ UNCHANGED formOps
  /\ UNCHANGED <<cfgVars, folderError, reportUrl, onReleaseNotes,
                 calledTimeZone, targets, newPage, reportPage, concurrentVars,
                 lookupVars, scheduleVars, captureVars, labelElements,
                 reportFilters, labelTextToInputId, filterIdx, inputId>>

\* the pause and the network-idle wait that end applyReportFilters
AfFinish ==
  /\ pc \in {"af_delay", "af_idle"}
  /\ \/ FilterGoto(After(FilterSteps, pc))
     \/ /\ pc = "af_idle"
        /\ FilterThrow(BrowserError)
  /\ UNCHANGED <<cfgVars, folderError, reportUrl, onReleaseNotes,
                 calledTimeZone, targets, newPage, reportPage, concurrentVars,
                 lookupVars, scheduleVars, captureVars, filterVars>>

\* #navigateToFasterReportPage returns; the export method calls
\* #exportFasterReport
NavigateReturn ==
  /\ pc = "af_return"
  /\ Goto("ex_front")
  /\ reportPage' = LoginPage
  /\ optionsTimeout' = 0
  /\ UNCHANGED <<cfgVars, folderError, reportUrl, onReleaseNotes,
                 calledTimeZone, targets, newPage, concurrentVars, lookupVars,
                 scheduleVars, captureVars, filterVars>>

---------------------------------------------------------------------------
(* #exportWorkOrderPrint: everything after the login is inside a try whose *)
(* catch closes the browser and rethrows                                   *)

WorkOrderPause == {"wo_delay", "wo_delay2", "wo_delay3"}

WorkOrderCatchNoClose(err) == ThrowOnly(err)

\* catch (error) { try { await browser.close() } catch {} throw error }
WorkOrderCatch(err) == CloseAndThrow(err)

\* the targets of the browser: the page of the call, at the work order,
\* and what the click on the print link may open
WorkOrderTarget == [page |-> LoginPage, url |-> "WorkOrderMaster.aspx"]
ReportViewerTarget == [page |-> "reportTab", url |-> "ReportViewer.aspx"]
OtherTarget == [page |-> "otherTab", url |-> "Error.aspx"]

toLowerCase ==
  [u \in {"WorkOrderMaster.aspx", "ReportViewer.aspx", "Error.aspx"} |->
     CASE u = "WorkOrderMaster.aspx" -> "workordermaster.aspx"
       [] u = "ReportViewer.aspx" -> "reportviewer.aspx"
       [] u = "Error.aspx" -> "error.aspx"]

\* target.url().toLowerCase().includes('reportviewer.aspx')
IsReportViewer(target) == toLowerCase[target.url] = "reportviewer.aspx"

TargetTimeout == "waitForTarget timed out"

\* steps of #exportWorkOrderPrint with no effect on the state of the model
WorkOrderPlain ==
  {"wo_delay", "wo_idle", "wo_scroll", "wo_asPage", "wo_delay2",
   "wo_front", "wo_delay3"}

WorkOrderStep ==
  /\ pc \in WorkOrderPlain
  /\ \/ Goto(After(WorkOrderSteps, pc))
     \/ /\ pc \notin WorkOrderPause
        /\ WorkOrderCatch(BrowserError)
  /\ UNCHANGED <<cfgVars, folderError, reportUrl, onReleaseNotes,
                 calledTimeZone, pageVars, concurrentVars, lookupVars,
                 scheduleVars, captureVars, filterVars>>

\* page.goto(.../WorkOrderMaster.aspx?workOrderID=...)
WorkOrderGoto ==
  /\ pc = "wo_goto"
  /\ \/ /\ Goto("wo_delay")
        /\ targets' = {WorkOrderTarget}
     \/ /\ WorkOrderCatch(BrowserError)
        /\ UNCHANGED targets
  /\ UNCHANGED <<cfgVars, folderError, reportUrl, onReleaseNotes,
                 calledTimeZone, optionsTimeout, newPage, reportPage,
                 concurrentVars, lookupVars, scheduleVars, captureVars,
                 filterVars>>

\* page.waitForSelector(printButtonSelector)
WorkOrderFindPrint ==
  /\ pc = "wo_findPrint"
  /\ \/ Goto("wo_scroll")
     \/ WorkOrderCatch("Unable to locate print link.")
     \/ WorkOrderCatch(BrowserError)
  /\ UNCHANGED <<cfgVars, folderError, reportUrl, onReleaseNotes,
                 calledTimeZone, pageVars, concurrentVars, lookupVars,
                 scheduleVars, captureVars, filterVars>>

\* printElement.click(): the report viewer opens in a new target, or
\* another page does, or nothing opens
WorkOrderClick ==
  /\ pc = "wo_click"
  /\ \/ /\ Goto("wo_waitTarget")
        /\ \E opened \in {{}, {ReportViewerTarget}, {OtherTarget}} :
             targets' = targets \cup opened
     \/ /\ WorkOrderCatch(BrowserError)
        /\ UNCHANGED targets
  /\ UNCHANGED <<cfgVars, folderError, reportUrl, onReleaseNotes,
                 calledTimeZone, optionsTimeout, newPage, reportPage,
                 concurrentVars, lookupVars, scheduleVars, captureVars,
                 filterVars>>

\* browser.waitForTarget(...): settles with a target that satisfies the
\* predicate, and times out when there is none
WorkOrderWaitTarget ==
  /\ pc = "wo_waitTarget"
  /\ \/ /\ \E target \in targets :
             /\ IsReportViewer(target)
             /\ newPage' = target.page
        /\ Goto("wo_asPage")
     \/ /\ \A target \in targets : ~IsReportViewer(target)
        /\ WorkOrderCatch(TargetTimeout)
        /\ UNCHANGED newPage
     \/ /\ WorkOrderCatch(BrowserError)
        /\ UNCHANGED newPage
  /\ UNCHANGED <<cfgVars, folderError, reportUrl, onReleaseNotes,
                 calledTimeZone, optionsTimeout, targets, reportPage,
                 concurrentVars, lookupVars, scheduleVars, captureVars,
                 filterVars>>

WorkOrderExportPageOld == LoginPage

\* the page argument of this.#exportFasterReport(browser, newPage, ...)
WorkOrderExportPage == newPage

\* newPage.waitForNetworkIdle, then the call of #exportFasterReport
WorkOrderReturn ==
  /\ pc = "wo_idle2"
  /\ \/ /\ Goto("ex_front")
        /\ reportPage' = WorkOrderExportPage
     \/ /\ WorkOrderCatch(BrowserError)
        /\ UNCHANGED reportPage
  /\ UNCHANGED <<cfgVars, folderError, reportUrl, onReleaseNotes,
                 calledTimeZone, optionsTimeout, targets, newPage,
                 concurrentVars, lookupVars, scheduleVars, captureVars,
                 filterVars>>

---------------------------------------------------------------------------
(* #exportFasterReport *)

PathJoin(folder, name) == folder \o "/" \o name

\* fs.rename: not called, called and not finished, finished without error,
\* finished with an error
NoRename == [state |-> "none"]

\* bringToFront, waitForNetworkIdle and title run before the promise is
\* made and outside its try: an error leaves #exportFasterReport, and only
\* #exportWorkOrderPrint has a catch around the call
ExportPrepare ==
  /\ pc \in {"ex_front", "ex_idle0", "ex_title"}
  /\ \/ Goto(After(ExportSteps, pc))
     \/ IF flow = "workOrder"
          THEN CloseAndThrow(BrowserError)
          ELSE ThrowOnly(BrowserError)
  /\ UNCHANGED <<cfgVars, folderError, reportUrl, onReleaseNotes,
                 calledTimeZone, pageVars, concurrentVars, lookupVars,
                 scheduleVars, captureVars, filterVars>>

\* an executor whose error, after the finally, reaches the caller of
\* #exportFasterReport: in the work-order flow the catch closes again
ExecutorThrowToCaller(err) ==
  /\ pc' = "done"
  /\ result' = Rejected(err)
  /\ browser' = "closed"
  /\ closeCount' = closeCount + (IF flow = "workOrder" THEN 2 ELSE 1)
  /\ download' = IF download = "inProgress" THEN "aborted" ELSE download
  /\ failedAt' = StageOf(pc)
  /\ UNCHANGED <<flow, requestedType, exportType, unhandled, closeThrew>>

\* an error inside the async executor of the promise: the finally closes
\* the browser, the error rejects the promise of the executor, which nobody
\* holds, and the promise of the call is left as it is
ExecutorThrow(err) ==
  /\ pc' = "done"
  /\ unhandled' = err
  /\ CloseInFinally
  /\ download' = IF download = "inProgress" THEN "aborted" ELSE download
  /\ failedAt' = StageOf(pc)
  /\ UNCHANGED <<flow, requestedType, exportType, result>>

ExecutorGoto(p) ==
  /\ Goto(p)
  /\ UNCHANGED download

\* awaits of the executor with no effect on the state of the model
ExecutorPlain ==
  {"ex_cdp", "ex_idle1", "ex_clickMenu", "ex_idle2", "ex_scroll",
   "ex_idle3"}
ExecutorPause == {"ex_delayL", "ex_delay", "ex_delayL2"}
ExecutorFind == {"ex_findMenu", "ex_findOption"}

ExecutorFindError ==
  [ex_findMenu |-> "Unable to locate print options.",
   ex_findOption |-> "Unable to locate print type."]

ExecutorStep ==
  /\ pc \in ExecutorPlain \cup ExecutorPause
  /\ \/ ExecutorGoto(After(ExportSteps, pc))
     \/ /\ pc \in ExecutorPlain
        /\ ExecutorThrow(BrowserError)
  /\ UNCHANGED <<cfgVars, folderError, reportUrl, onReleaseNotes,
                 calledTimeZone, pageVars, concurrentVars, lookupVars,
                 scheduleVars, handlerOn, printOption, browserDownloadPath,
                 downloadStarted, retries, pollBudget, pollIters, rename,
                 files, filterVars>>

\* cdpSession.send('Browser.setDownloadBehavior', ...)
ExecutorSetBehavior ==
  /\ pc = "ex_setBehavior"
  /\ \/ /\ ExecutorGoto("ex_on")
        /\ browserDownloadPath' = downloadFolderPath
     \/ /\ ExecutorThrow(BrowserError)
        /\ UNCHANGED browserDownloadPath
  /\ UNCHANGED <<cfgVars, folderError, reportUrl, onReleaseNotes,
                 calledTimeZone, pageVars, concurrentVars, lookupVars,
                 scheduleVars, handlerOn, printOption, downloadStarted,
                 retries, pollBudget, pollIters, rename, files, filterVars>>

\* an executor that goes on without registering the handler
ExecutorOnSkipped ==
  /\ pc = "ex_on"
  /\ ExecutorGoto("ex_idle1")
  /\ UNCHANGED <<cfgVars, folderError, reportUrl, onReleaseNotes,
                 calledTimeZone, pageVars, concurrentVars, lookupVars,
                 scheduleVars, handlerOn, printOption, browserDownloadPath,
                 downloadStarted, retries, pollBudget, pollIters, rename,
                 files, filterVars>>

\* cdpSession.on('Browser.downloadProgress', handler)
ExecutorOn ==
  /\ pc = "ex_on"
  /\ ExecutorGoto("ex_idle1")
  /\ handlerOn' = TRUE
  /\ UNCHANGED <<cfgVars, folderError, reportUrl, onReleaseNotes,
                 calledTimeZone, pageVars, concurrentVars, lookupVars,
                 scheduleVars, printOption, browserDownloadPath,
                 downloadStarted, retries, pollBudget, pollIters, rename,
                 files, filterVars>>

\* the start of the title of the entry that a[title^='${exportType}']
\* selects in the print-options menu
PrintOptionTitle(t) == t

\* page.waitForSelector for the print-options menu and for the menu entry
\* of the format
ExecutorFindElement ==
  /\ pc \in ExecutorFind
  /\ \/ /\ ExecutorGoto(After(ExportSteps, pc))
        /\ printOption' = IF pc = "ex_findOption"
                            THEN PrintOptionTitle(exportType)
                            ELSE printOption
     \/ /\ ExecutorThrow(ExecutorFindError[pc])
        /\ UNCHANGED printOption
     \/ /\ ExecutorThrow(BrowserError)
        /\ UNCHANGED printOption
  /\ UNCHANGED <<cfgVars, folderError, reportUrl, onReleaseNotes,
                 calledTimeZone, pageVars, concurrentVars, lookupVars,
                 scheduleVars, handlerOn, browserDownloadPath,
                 downloadStarted, retries, pollBudget, pollIters, rename,
                 files, filterVars>>

\* downloadStarted = true
ExecutorSetStarted ==
  /\ pc = "ex_setStarted"
  /\ ExecutorGoto("ex_scroll")
  /\ downloadStarted' = TRUE
  /\ UNCHANGED <<cfgVars, folderError, reportUrl, onReleaseNotes,
                 calledTimeZone, pageVars, concurrentVars, lookupVars,
                 scheduleVars, handlerOn, printOption, browserDownloadPath,
                 retries, pollBudget, pollIters, rename, files, filterVars>>

\* printOptionElement.click(): the click starts the download
ExecutorClickOption ==
  /\ pc = "ex_clickOption"
  /\ \/ /\ Goto("ex_delayL2")
        /\ download' = "inProgress"
     \/ ExecutorThrow(BrowserError)
  /\ UNCHANGED <<cfgVars, folderError, reportUrl, onReleaseNotes,
                 calledTimeZone, pageVars, concurrentVars, lookupVars,
                 scheduleVars, handlerOn, printOption, browserDownloadPath,
                 downloadStarted, retries, pollBudget, pollIters, rename,
                 files, filterVars>>

\* let retries = this.#timeoutMillis / defaultDelayMillis.  The quotient
\* need not be whole: retries is kept as its numerator over
\* defaultDelayMillis.
ExecutorInitRetries ==
  /\ pc = "ex_initRetries"
  /\ ExecutorGoto("ex_poll")
  /\ retries' = timeoutMillis
  /\ pollBudget' = timeoutMillis
  /\ UNCHANGED <<cfgVars, folderError, reportUrl, onReleaseNotes,
                 calledTimeZone, pageVars, concurrentVars, lookupVars,
                 scheduleVars, handlerOn, printOption, browserDownloadPath,
                 downloadStarted, pollIters, rename, files, filterVars>>

PollContinueOnZero == downloadStarted /\ retries >= 0

\* a loop that runs the whole budget down whatever the handler has seen
PollContinueWhileBudget == retries > 0

\* the condition of the poll loop
PollContinue == downloadStarted /\ retries > 0

\* a poll loop that settles the promise itself when the budget runs out
ExecutorPollSettling ==
  /\ pc = "ex_poll"
  /\ IF PollContinue
       THEN /\ ExecutorGoto("ex_poll")
            /\ retries' = retries - defaultDelayMillis
            /\ pollIters' = pollIters + 1
       ELSE /\ pc' = "ex_finally"
            /\ result' = IF downloadStarted /\ result = Pending
                            THEN Rejected("Download timed out.")
                            ELSE result
            /\ UNCHANGED <<flow, requestedType, exportType, unhandled,
                           failedAt, browser, closeCount, closeThrew,
                           download>>
            /\ UNCHANGED <<retries, pollIters>>
  /\ UNCHANGED <<cfgVars, folderError, reportUrl, onReleaseNotes,
                 calledTimeZone, pageVars, concurrentVars, lookupVars,
                 scheduleVars, handlerOn, printOption, browserDownloadPath,
                 downloadStarted, pollBudget, rename, files, filterVars>>

\* while (downloadStarted && retries > 0) { await delay(); retries-- }
ExecutorPoll ==
  /\ pc = "ex_poll"
  /\ IF PollContinue
       THEN /\ ExecutorGoto("ex_poll")
            /\ retries' = retries - defaultDelayMillis
            /\ pollIters' = pollIters + 1
       ELSE /\ ExecutorGoto("ex_finally")
            /\ UNCHANGED <<retries, pollIters>>
  /\ UNCHANGED <<cfgVars, folderError, reportUrl, onReleaseNotes,
                 calledTimeZone, pageVars, concurrentVars, lookupVars,
                 scheduleVars, handlerOn, printOption, browserDownloadPath,
                 downloadStarted, pollBudget, rename, files, filterVars>>

\* finally { try { await browser.close() } catch {} }
ExecutorFinally ==
  /\ pc = "ex_finally"
  /\ pc' = "done"
  /\ CloseInFinally
  /\ download' = IF download = "inProgress" THEN "aborted" ELSE download
  /\ UNCHANGED <<flow, requestedType, exportType, result, unhandled,
                 failedAt>>
  /\ UNCHANGED <<cfgVars, folderError, reportUrl, onReleaseNotes,
                 calledTimeZone, pageVars, concurrentVars, lookupVars,
                 scheduleVars, handlerOn, printOption, browserDownloadPath,
                 downloadStarted, retries, pollBudget, pollIters, rename,
                 files, filterVars>>

---------------------------------------------------------------------------
(* The download-progress handler and the callback of fs.rename *)

\* event.state === 'completed': the browser has saved the file under the
\* guid in the folder it was given
DownloadCompleted ==
  /\ download = "inProgress"
  /\ browser = "open"
  /\ handlerOn
  /\ download' = "completed"
  /\ files' = files \cup {PathJoin(browserDownloadPath, Guid)}
  /\ LET downloadedFilePath == PathJoin(downloadFolderPath, Guid)
         newFilePath ==
           downloadedFilePath \o "." \o reportExportTypes[exportType]
     IN rename' = [state |-> "pending", from |-> downloadedFilePath,
                   to |-> newFilePath]
  /\ downloadStarted' = FALSE
  /\ UNCHANGED <<cfgVars, folderError, reportUrl, onReleaseNotes,
                 calledTimeZone, pageVars, concurrentVars, lookupVars,
                 scheduleVars, callVars, browserVars, handlerOn, printOption,
                 browserDownloadPath, retries, pollBudget, pollIters,
                 filterVars>>

\* event.state === 'canceled': the handler throws inside the event emitter
DownloadCanceled ==
  /\ download = "inProgress"
  /\ browser = "open"
  /\ handlerOn
  /\ download' = "canceled"
  /\ downloadStarted' = FALSE
  /\ unhandled' = "Download cancelled."
  /\ UNCHANGED <<cfgVars, folderError, reportUrl, onReleaseNotes,
                 calledTimeZone, pageVars, concurrentVars, lookupVars,
                 scheduleVars, pc, flow, requestedType, exportType, result,
                 failedAt, browserVars, handlerOn, printOption,
                 browserDownloadPath, retries, pollBudget, pollIters, rename,
                 files, filterVars>>

\* resolve(path): settles the promise of the call unless it is settled
Resolve(path) ==
  result' = IF result = Pending THEN Resolved(path) ELSE result

RenameErrorPathRenamed(r) == r.to

\* the path resolved with when fs.rename reports an error
RenameErrorPath(r) == r.from

\* the callback of fs.rename: error === null, or an error.  The rename
\* cannot succeed when there is no file under the old name.
RenameCallback ==
  /\ rename.state = "pending"
  /\ \/ /\ rename.from \in files
        /\ files' = (files \ {rename.from}) \cup {rename.to}
        /\ rename' = [rename EXCEPT !.state = "ok"]
        /\ Resolve(rename.to)
     \/ /\ UNCHANGED files
        /\ rename' = [rename EXCEPT !.state = "error"]
        /\ Resolve(RenameErrorPath(rename))
  /\ UNCHANGED <<cfgVars, folderError, reportUrl, onReleaseNotes,
                 calledTimeZone, pageVars, concurrentVars, lookupVars,
                 scheduleVars, pc, flow, requestedType, exportType, unhandled,
                 failedAt, browserVars, handlerOn, printOption,
                 browserDownloadPath, downloadStarted, retries, pollBudget,
                 pollIters, download, filterVars>>

---------------------------------------------------------------------------
(* The export pipeline *)

FullPage ==
  <<[text |-> <<"t">>, for |-> "f1"],
    [text |-> <<"p">>, for |-> "f2"],
    [text |-> <<"s">>, for |-> "f3"]>>

\* the report page, with a label for every filter of the reports
MainPages == {FullPage}

\* no getElementOnPageBySelector is under way
NoLookup ==
  /\ maxRetries = 0
  /\ retry = 0
  /\ element = Undefined
  /\ returned = None
  /\ lookupOps = <<>>
  /\ lookupPc = None

\* no exportScheduledReport is under way
NoSchedule ==
  /\ scheduleName = None
  /\ rows = <<>>
  /\ rowIdx = 0
  /\ linkIdx = 0
  /\ page = [row |-> 0]
  /\ browserPages = <<>>
  /\ filtered = {}

InitCall ==
  /\ flow = "none"
  /\ requestedType = Undefined
  /\ exportType = "PDF"
  /\ failedAt = None
  /\ folderError = None
  /\ onReleaseNotes = FALSE
  /\ reportUrl = NoUrl
  /\ calledTimeZone = None
  /\ targets = {}
  /\ newPage = None
  /\ reportPage = None
  /\ launched = 0
  /\ touched = <<>>
  /\ result = Pending
  /\ unhandled = None
  /\ closeCount = 0
  /\ closeThrew = FALSE
  /\ handlerOn = FALSE
  /\ printOption = None
  /\ browserDownloadPath = None
  /\ downloadStarted = FALSE
  /\ retries = 0
  /\ pollBudget = 0
  /\ pollIters = 0
  /\ download = "none"
  /\ rename = NoRename
  /\ files = {}
  /\ labelTextToInputId = <<>>
  /\ filterIdx = 0
  /\ inputId = NoField
  /\ formOps = <<>>

\* the exporter as constructed, with the options downloadFolderPath,
\* timeoutMillis and timeZone given: the constructor hands the folder to
\* setDownloadFolderPath, and there is no exporter when that throws
Init ==
  /\ downloadFolderPath \in
       { folder \in ExistingFolders \cup {MissingFolder} :
           FolderExists(folder) }
  /\ timeoutMillis \in TimeoutChoices
  /\ timeZone \in ReportTimeZone
  /\ pc = "idle"
  /\ browser = "none"
  /\ optionsTimeout = 0
  /\ calls = <<>>
  /\ reportFilters = <<>>
  /\ labelElements \in MainPages
  /\ InitCall
  /\ NoLookup
  /\ NoSchedule

Next ==
  \/ \E folder \in ExistingFolders \cup {MissingFolder} :
       SetDownloadFolderPath(folder)
  \/ \E t \in TimeoutChoices : SetTimeoutMillis(t)
  \/ \E tz \in ReportTimeZone : SetTimeZone(tz)
  \/ \E f \in Flows, t \in ReportExportType \cup {Undefined} :
       StartExport(f, t)
  \/ LoginLaunch
  \/ LoginStep
  \/ LoginFindForm
  \/ LoginFindField
  \/ LoginCheckUrl
  \/ LoginFindContinue
  \/ LoginReturn
  \/ NavigateStep
  \/ AfWaitLabel
  \/ AfLabels
  \/ AfLookup
  \/ AfWaitInput
  \/ AfFill
  \/ AfSettle
  \/ AfWaitSubmit
  \/ AfSubmit
  \/ AfFinish
  \/ NavigateReturn
  \/ WorkOrderStep
  \/ WorkOrderGoto
  \/ WorkOrderClick
  \/ WorkOrderWaitTarget
  \/ WorkOrderReturn
  \/ WorkOrderFindPrint
  \/ ExportPrepare
  \/ ExecutorStep
  \/ ExecutorSetBehavior
  \/ ExecutorOn
  \/ ExecutorFindElement
  \/ ExecutorSetStarted
  \/ ExecutorClickOption
  \/ ExecutorInitRetries
  \/ ExecutorPoll
  \/ ExecutorFinally
  \/ DownloadCompleted
  \/ DownloadCanceled
  \/ RenameCallback

Spec == Init /\ [][Next]_vars

---------------------------------------------------------------------------
(* applyReportFilters on every small report page and filter mapping *)

SeqsUpTo(S, n) == UNION { [1..k -> S] : k \in 0..n }

\* the label elements of a page in document order: a text (or none) and a
\* 'for' attribute (or none) each; the k-th label names the k-th field
LabelLists ==
  { l \in SeqsUpTo([text : LabelTexts \cup {NullText},
                     for : Range(FieldIds) \cup {NullFor}], MaxLabels) :
      \A k \in 1..Len(l) : l[k].for \in {NullFor, FieldIds[k]} }

\* Object.entries of a filter mapping: the keys differ, and the keys that
\* are array indices come first
FilterLists ==
  { f \in SeqsUpTo([label : SearchTexts, value : {"v"}], MaxFilters) :
      /\ \A i, j \in 1..Len(f) : i # j => f[i].label # f[j].label
      /\ \A i, j \in 1..Len(f) :
           i < j => ~KeyBefore(f[j].label, f[i].label) }

\* the call of applyReportFilters in #navigateToFasterReportPage
InitFilters ==
  /\ downloadFolderPath = tmpdir
  /\ timeoutMillis = defaultDelayMillis
  /\ timeZone = "Eastern"
  /\ pc = "af_waitLabel"
  /\ browser = "open"
  /\ optionsTimeout = timeoutMillis
  /\ calls = <<>>
  /\ labelElements \in LabelLists
  /\ reportFilters \in FilterLists
  /\ InitCall
  /\ NoLookup
  /\ NoSchedule

NextFilters ==
  \/ AfWaitLabel
  \/ AfLabels
  \/ AfLookup
  \/ AfWaitInput
  \/ AfFill
  \/ AfSettle
  \/ AfWaitSubmit
  \/ AfSubmit
  \/ AfFinish
  \/ NavigateReturn

SpecFilters == InitFilters /\ [][NextFilters]_vars

---------------------------------------------------------------------------
(* Export calls running side by side on one exporter.  browser and page    *)
(* are locals of each call, handed from method to method as arguments; a   *)
(* call is followed through the steps that make, use and close them.       *)
(* launched counts the browsers puppeteer has launched, and touched[b] is  *)
(* the set of calls that have acted on browser b or on its page.           *)

CallSteps ==
  <<"launch", "newPage", "login", "navigate", "cdp", "on", "click",
    "close", "done">>

NewBrowserShared == IF launched > 0 THEN 1 ELSE launched + 1

\* puppeteer.launch(...) makes a browser of its own for every call
NewBrowser == launched + 1

\* the calls share the exporter, whose fields they only read
OneExporter ==
  UNCHANGED <<cfgVars, folderError, reportUrl, onReleaseNotes,
              calledTimeZone, callVars, browserVars, captureVars,
              filterVars, pageVars, lookupVars, scheduleVars>>

\* an export method is called
CallStart(c) ==
  /\ calls[c].pc = "idle"
  /\ calls' = [calls EXCEPT ![c].pc = "launch"]
  /\ UNCHANGED <<launched, touched>>
  /\ OneExporter

\* browser = await puppeteerLaunch(...), or the launch fails and there is
\* no browser to close
CallLaunch(c) ==
  /\ calls[c].pc = "launch"
  /\ \/ /\ calls' = [calls EXCEPT ![c].pc = "newPage",
                                  ![c].browser = NewBrowser]
        /\ launched' = IF NewBrowser > launched THEN NewBrowser ELSE launched
        /\ touched' = IF NewBrowser > Len(touched)
                        THEN Append(touched, {c})
                        ELSE [touched EXCEPT ![NewBrowser] = @ \cup {c}]
     \/ /\ calls' = [calls EXCEPT ![c].pc = "done"]
        /\ UNCHANGED <<launched, touched>>
  /\ OneExporter

\* browser.newPage(), the page calls of the login, of the navigation and
\* of the export, browser.target().createCDPSession() and cdpSession.on:
\* each acts on the browser of the call or on its page; an error leads to
\* the close of that browser
CallAct(c) ==
  /\ calls[c].pc \in {"newPage", "login", "navigate", "cdp", "on", "click"}
  /\ touched' = [touched EXCEPT ![calls[c].browser] = @ \cup {c}]
  /\ \/ calls' = [calls EXCEPT ![c].pc = After(CallSteps, calls[c].pc)]
     \/ calls' = [calls EXCEPT ![c].pc = "close"]
  /\ UNCHANGED launched
  /\ OneExporter

\* browser.close() in a catch or in the finally
CallClose(c) ==
  /\ calls[c].pc = "close"
  /\ touched' = [touched EXCEPT ![calls[c].browser] = @ \cup {c}]
  /\ calls' = [calls EXCEPT ![c].pc = "done"]
  /\ UNCHANGED launched
  /\ OneExporter

InitCalls ==
  /\ downloadFolderPath = tmpdir
  /\ timeoutMillis = defaultDelayMillis
  /\ timeZone = "Eastern"
  /\ pc = "idle"
  /\ browser = "none"
  /\ optionsTimeout = 0
  /\ reportFilters = <<>>
  /\ labelElements = FullPage
  /\ calls = [c \in 1..MaxCalls |-> [pc |-> "idle", browser |-> 0]]
  /\ InitCall
  /\ NoLookup
  /\ NoSchedule

NextCalls ==
  \/ \E c \in 1..MaxCalls : CallStart(c)
  \/ \E c \in 1..MaxCalls : CallLaunch(c)
  \/ \E c \in 1..MaxCalls : CallAct(c)
  \/ \E c \in 1..MaxCalls : CallClose(c)

SpecCalls == InitCalls /\ [][NextCalls]_vars

---------------------------------------------------------------------------
(* Properties *)

\* the call has ended in a failure: its promise is rejected, or an error
\* was thrown inside the executor or the download-progress handler
CallFailed ==
  /\ pc = "done"
  /\ result.state = "rejected" \/ unhandled # None

\* C1: after a failure at any step of session acquisition, report
\* navigation, filter population and export trigger (its bringToFront,
\* network-idle and title steps included), the browser launched for the
\* call has been closed exactly once.
C1_ClosedOnceOnFailure ==
  (CallFailed /\ browser # "none") => closeCount = 1

\* C2: an export never resolves with a file path while the browser
\* launched for the call is still open (file path produced, browser torn
\* down, path returned).
C2_ClosedBeforeResolved ==
  result.state = "resolved" => browser = "closed"

\* C3: when the print-options menu control or the menu entry of the
\* requested format cannot be located, the promise of the call is rejected
\* once the call has ended: it does not stay pending, and is not resolved.
C3_MissingElementRejects ==
  (pc = "done" /\ \E step \in ExecutorFind :
                    unhandled = ExecutorFindError[step])
    => result.state = "rejected"

\* C4: when the download-progress handler has seen state 'canceled', the
\* promise of the call is rejected once the call has ended.
C4_CanceledRejects ==
  (pc = "done" /\ download = "canceled") => result.state = "rejected"

\* the poll loop ran out of retries with no 'completed' or 'canceled'
\* event: the download was still in progress when the browser was closed.
\* From here no action changes the promise of the call.
BudgetExhausted ==
  /\ pc = "done"
  /\ unhandled = None
  /\ download = "aborted"
  /\ pollIters > 0
  /\ retries <= 0

\* C5: when the poll budget is exhausted and no 'completed' or 'canceled'
\* event has arrived, the promise of the call is settled.
C5_ExhaustedSettles ==
  BudgetExhausted => result.state # "pending"

\* the budget of the poll loop: a negative timeout gives none
Budget == IF pollBudget > 0 THEN pollBudget ELSE 0

\* C6 as claimed: the poll loop makes at most timeoutMillis /
\* pollIntervalMillis iterations (none for a timeout of zero or less).
C6_AtMostQuotient ==
  pollIters * defaultDelayMillis <= Budget

\* C6: for every finite timeoutMillis the poll loop ends after at most
\* timeoutMillis / pollIntervalMillis iterations rounded up to a whole
\* number (none for a timeout of zero or less): the last iteration starts
\* with budget left, and each iteration takes one interval off the budget.
C6_AtMostQuotientRoundedUp ==
  /\ pollIters * defaultDelayMillis < Budget + defaultDelayMillis
  /\ pc \in {"ex_poll", "ex_finally"}
       => retries = pollBudget - pollIters * defaultDelayMillis

\* the loop ran to the end of a budget that is not a multiple of the
\* interval, with no event arriving
C6_Witness ==
  /\ pc = "ex_finally"
  /\ downloadStarted
  /\ pollBudget = TimeoutStep
  /\ pollIters * defaultDelayMillis > pollBudget

\* '.' and the extension of each format
DotExtension ==
  [PDF |-> ".pdf", CSV |-> ".csv", Excel |-> ".xlsx", Word |-> ".docx"]

\* C7 as claimed: every path an export resolves with is a download folder
\* joined with the guid, with the extension of the format appended.
C7_ResolvedPathHasExtension ==
  result.state = "resolved"
    => \E folder \in ExistingFolders :
         result.path = folder \o "/guid" \o DotExtension[exportType]

\* C7: when the rename of the completed download succeeds, the path the
\* export resolves with is the folder the browser was told to save to,
\* joined with the guid, with '.pdf', '.csv', '.xlsx' or '.docx' appended
\* for PDF, CSV, Excel or Word.
C7_RenamedPathHasExtension ==
  (result.state = "resolved" /\ rename.state = "ok")
    => /\ browserDownloadPath \in ExistingFolders
       /\ result.path =
            browserDownloadPath \o "/guid" \o DotExtension[exportType]

C7_Witness ==
  /\ exportType = "Excel"
  /\ rename.state = "ok"
  /\ result = Resolved("/out/guid.xlsx")

\* C8: when the rename of a completed download fails, the export resolves
\* (it is never rejected, and does not stay pending) with the path it tried
\* to rename: the download folder joined with the guid, with no extension.
C8_RenameFailureResolvesOriginal ==
  rename.state = "error"
    => /\ result.state = "resolved"
       /\ result.path = rename.from
       /\ \E folder \in ExistingFolders :
            result.path = folder \o "/guid"

\* the rename failed with the file present under its original name
C8_Witness ==
  /\ rename.state = "error"
  /\ result = Resolved("/out/guid")
  /\ "/out/guid" \in files
  /\ exportType = "CSV"

\* C9: whenever an export resolves, the path it resolved with names a file
\* on disk.
C9_ResolvedPathExists ==
  result.state = "resolved" => result.path \in files

\* s occurs in t as a contiguous run of characters
IsSubstring(s, t) ==
  \E i \in 0..(Len(t) - Len(s)) : \A j \in 1..Len(s) : t[i + j] = s[j]

\* the places of the index entries whose label text contains s
MatchingEntries(s) ==
  { i \in 1..Len(labelTextToInputId) :
      IsSubstring(s, labelTextToInputId[i].text) }

Least(S) == CHOOSE i \in S : \A j \in S : i <= j

\* the filter at filterIdx has been looked up in the index
LookedUp == filterIdx \in 1..Len(reportFilters) /\ pc # "af_lookup"

\* the operations on the form that one filled filter leaves in formOps
OpsPerFilter == IF Len(reportFilters) > 1 THEN 5 ELSE 4

FilterNotFound == Rejected("No filter found with label")

\* C10: for every label index and requested filter, the field selected is
\* that of the first index entry whose label text contains the search
\* text, and every operation on the form for that filter is on that field;
\* when no label text contains the search text (or that first entry names
\* no field) the call fails with the filter-not-found error and no
\* operation on the form is made for that filter.
C10_FirstMatchingEntry ==
  LookedUp =>
    LET s == reportFilters[filterIdx].label
        M == MatchingEntries(s)
        before == (filterIdx - 1) * OpsPerFilter
    IN IF M = {}
         THEN /\ pc = "done"
              /\ result = FilterNotFound
              /\ Len(formOps) = before
         ELSE /\ inputId = labelTextToInputId[Least(M)].id
              /\ Len(formOps) >= before
              /\ \A i \in (before + 1)..Len(formOps) :
                   formOps[i].id = inputId
              /\ inputId = NoField =>
                   /\ pc = "done"
                   /\ result = FilterNotFound
                   /\ Len(formOps) = before

\* two labels contain the search text, and the field of the first is typed
\* into
C10_Witness ==
  /\ pc = "af_blur"
  /\ filterIdx = 1
  /\ reportFilters[1].label = <<"t">>
  /\ labelTextToInputId =
       <<[text |-> <<"p", "t">>, id |-> "f1"],
         [text |-> <<"t", "p">>, id |-> "f2"]>>
  /\ formOps[Len(formOps)] = FormOp("af_type", "f1", "v")

---------------------------------------------------------------------------
(* Settling between fills: SpecFilters *)

\* the number of operations op recorded in ops
RECURSIVE CountOps(_, _)
CountOps(ops, op) ==
  IF ops = <<>> THEN 0
  ELSE (IF Head(ops).op = op THEN 1 ELSE 0) + CountOps(Tail(ops), op)

\* C11: with two or more filter entries every fill of a field (its blur)
\* is followed by the settle pause and network-idle wait on that field
\* before the next field is waited for or the form is submitted, and when
\* all fields are filled there is one settle per entry; with exactly one
\* entry no settle is ever made and the submit sequence follows the blur
\* directly.
C11_SettleOnlyWithSeveralFilters ==
  /\ Len(reportFilters) >= 2 =>
       /\ \A i \in 2..Len(formOps) :
            /\ formOps[i].op \in {"waitForSelector", "af_scroll"} =>
                 formOps[i - 1].op = "settle"
            /\ formOps[i - 1].op = "af_blur" =>
                 /\ formOps[i].op = "settle"
                 /\ formOps[i].id = formOps[i - 1].id
       /\ pc \in {"af_waitSubmit", "af_return"} =>
            CountOps(formOps, "settle") = Len(reportFilters)
  /\ Len(reportFilters) = 1 =>
       /\ CountOps(formOps, "settle") = 0
       /\ \A i \in 2..Len(formOps) :
            formOps[i - 1].op = "af_blur" => formOps[i].op = "af_scroll"

C11_Witness ==
  /\ Len(reportFilters) = 2
  /\ pc = "af_return"
  /\ CountOps(formOps, "settle") = 2
  /\ CountOps(formOps, "af_click") = 1

---------------------------------------------------------------------------
(* Order of the stages: Spec *)

\* the steps that act on a page: navigation, typing, clicking, scrolling,
\* bringing to front
UISteps ==
  {"lg_goto", "lg_typeUser", "lg_typePass", "lg_scrollSubmit",
   "lg_clickSubmit", "lg_scrollContinue", "lg_clickContinue", "nv_goto",
   "af_clear", "af_type", "af_blur", "af_scroll", "af_click", "wo_goto",
   "wo_scroll", "wo_click", "wo_front", "ex_front", "ex_clickMenu",
   "ex_scroll", "ex_clickOption"}

StageRank(p) ==
  CASE StageOf(p) = "login" -> 1
    [] StageOf(p) \in {"navigate", "workOrder"} -> 2
    [] StageOf(p) = "filters" -> 3
    [] StageOf(p) = "export" -> 4
    [] OTHER -> 0

Position(seq, p) == CHOOSE i \in 1..Len(seq) : seq[i] = p

\* the last step of each stage and the first step of the stage after it
StageHandOver ==
  {<<"lg_return", "nv_goto">>, <<"lg_return", "wo_goto">>,
   <<"nv_idle", "af_waitLabel">>, <<"af_return", "ex_front">>,
   <<"wo_idle2", "ex_front">>}

---------------------------------------------------------------------------
(* One browser per call: SpecCalls *)

\* C13: however export calls on one exporter interleave, every call that
\* has launched holds a browser of its own (no two calls hold the same
\* one, and as many browsers were launched as calls hold one), and every
\* browser has been acted on (page calls, CDP session and handler, close)
\* by the call that launched it and by no other.
C13_OwnBrowserPerCall ==
  /\ \A c, d \in DOMAIN calls :
       (c # d /\ calls[c].browser # 0) =>
         calls[c].browser # calls[d].browser
  /\ Cardinality({c \in DOMAIN calls : calls[c].browser # 0}) = launched
  /\ \A b \in 1..Len(touched) :
       \A c \in touched[b] : calls[c].browser = b

\* two calls in flight at once, each past its CDP session
C13_Witness ==
  /\ MaxCalls >= 2
  /\ calls[1].pc = "click"
  /\ calls[2].pc = "on"
  /\ calls[1].browser = 2
  /\ calls[2].browser = 1

---------------------------------------------------------------------------
(* Failures of the session acquisition and of the work-order flow: Spec *)

LoginFindErrors == { LoginFindError[step] : step \in LoginFind }

\* nothing of the navigation, of the filters or of the export has been
\* done
NothingAfterLogin ==
  /\ reportFilters = <<>>
  /\ formOps = <<>>
  /\ targets = {}
  /\ reportPage = None

ExportNotStarted ==
  /\ reportPage = None
  /\ ~handlerOn
  /\ browserDownloadPath = None
  /\ download = "none"

\* C14: when the login form is there and the user-name field, the password
\* field or the sign-in control is not, the call is rejected with the
\* error that names the missing element, the browser has been closed
\* (once) when the rejection is there, and no step of the navigation, of
\* the filters or of the export has been made; the browser is closed in
\* the same way after every other failure of the session acquisition that
\* follows the launch.
C14_LoginFailureCloses ==
  /\ (result.state = "rejected" /\ failedAt = "login") =>
       /\ pc = "done"
       /\ browser \in {"none", "closed"}
       /\ closeCount = IF browser = "closed" THEN 1 ELSE 0
       /\ NothingAfterLogin
       /\ ExportNotStarted
  /\ (result.state = "rejected" /\ result.error \in LoginFindErrors) =>
       /\ failedAt = "login"
       /\ browser = "closed"
  /\ (StageOf(pc) = "login" /\ pc # "lg_launch") =>
       browser = "open" /\ result = Pending

\* the password field was not found
C14_Witness ==
  /\ result = Rejected("Unable to locate password field.")
  /\ failedAt = "login"
  /\ browser = "closed"
  /\ closeCount = 1

\* C15: in the work-order flow the page given to the export (the one that
\* is brought to front, whose print-options menu is clicked and whose
\* browser gets the download handler) is the page of a target opened by
\* the click on the print link whose url is that of the report viewer; it
\* is never the page the work order was loaded in.
C15_ExportOnReportViewerPage ==
  flow = "workOrder" =>
    /\ pc \in {"wo_asPage", "wo_delay2", "wo_front", "wo_delay3",
               "wo_idle2"} =>
         /\ newPage # LoginPage
         /\ \E target \in targets \ {WorkOrderTarget} :
              /\ target.page = newPage
              /\ toLowerCase[target.url] = "reportviewer.aspx"
    /\ StageOf(pc) = "export" =>
         /\ reportPage = newPage
         /\ reportPage # LoginPage
         /\ \E target \in targets \ {WorkOrderTarget} :
              /\ target.page = reportPage
              /\ toLowerCase[target.url] = "reportviewer.aspx"
    /\ (handlerOn \/ download # "none") => reportPage \notin {None, LoginPage}

\* the print-options menu of the report viewer page is about to be
\* clicked
C15_Witness ==
  /\ flow = "workOrder"
  /\ pc = "ex_clickMenu"
  /\ handlerOn
  /\ reportPage = ReportViewerTarget.page
  /\ WorkOrderTarget \in targets

NoReportViewerTarget ==
  \A target \in targets : toLowerCase[target.url] # "reportviewer.aspx"

\* C16: in the work-order flow, when no target with 'reportviewer.aspx' in
\* its url appears within the timeout, the call is rejected with the
\* time-out of the wait, the browser has been closed (once) when the
\* rejection is there, and the export has not been started; the steps
\* after the wait are reached only with such a target there.
C16_NoReportViewerTargetFails ==
  /\ (result.state = "rejected" /\ result.error = TargetTimeout) =>
       /\ flow = "workOrder"
       /\ failedAt = "workOrder"
       /\ pc = "done"
       /\ browser = "closed"
       /\ closeCount = 1
       /\ ExportNotStarted
       /\ NoReportViewerTarget
  /\ (flow = "workOrder" /\ pc \notin {"done", "wo_waitTarget"}
        /\ NoReportViewerTarget) =>
       StageOf(pc) \in {"login", "workOrder"} /\ newPage = None

\* the click opened another page, and the wait timed out
C16_Witness ==
  /\ result = Rejected(TargetTimeout)
  /\ OtherTarget \in targets
  /\ browser = "closed"
  /\ closeCount = 1
  /\ reportPage = None

---------------------------------------------------------------------------
(* Configuration: Spec *)

\* C17: a folder that does not exist is refused when it is configured: in
\* every state a setDownloadFolderPath with such a folder can only throw
\* and leave the configured folder as it was (the constructor option goes
\* through the same method, so an exporter never starts with one), and
\* the folder configured, the folder given to the browser and the folder
\* of a downloaded file are always folders that passed the validation.
C17_MissingFolderRefused ==
  /\ downloadFolderPath \in ExistingFolders
  /\ browserDownloadPath \in ExistingFolders \cup {None}
  /\ \A path \in files :
       \E folder \in ExistingFolders :
         path \in {PathJoin(folder, Guid)} \cup
                  {PathJoin(folder, Guid) \o DotExtension[t] :
                     t \in ReportExportType}
  /\ ENABLED (/\ SetDownloadFolderPath(MissingFolder)
              /\ folderError' = FolderMissing
              /\ downloadFolderPath' = downloadFolderPath)
  /\ ~ENABLED (/\ SetDownloadFolderPath(MissingFolder)
               /\ \/ folderError' # FolderMissing
                  \/ downloadFolderPath' # downloadFolderPath)

\* a folder was refused while an export was running, and the export went
\* on with the folder configured before
C17_Witness ==
  /\ folderError = FolderMissing
  /\ downloadFolderPath = "/out"
  /\ browserDownloadPath = "/out"
  /\ result = Resolved("/out/guid.pdf")
  /\ pc = "done"

---------------------------------------------------------------------------
(* The default format: Spec *)

PdfPaths == { PathJoin(folder, Guid) \o ".pdf" : folder \in ExistingFolders }

\* C18 as stated: a call that leaves the format out clicks the menu entry
\* whose title starts with 'PDF', and the path it resolves with carries
\* the '.pdf' extension.
C18_OmittedIsPdf ==
  requestedType = Undefined =>
    /\ download # "none" => printOption = "PDF"
    /\ result.state = "resolved" => result.path \in PdfPaths

\* C18: a call that leaves the format out runs as a call given 'PDF': the
\* format of the call is 'PDF', the menu entry looked for and clicked is
\* the one whose title starts with 'PDF', the downloaded file is renamed
\* to its name followed by '.pdf', and the call resolves with that path
\* when the rename succeeded (with the name not renamed when it failed).
C18_OmittedIsPdfWhenRenamed ==
  requestedType \in {Undefined, "PDF"} =>
    /\ exportType = "PDF"
    /\ printOption \in {None, "PDF"}
    /\ download # "none" => printOption = "PDF"
    /\ rename.state # "none" => rename.to = rename.from \o ".pdf"
    /\ result.state = "resolved" =>
         /\ rename.state \in {"ok", "error"}
         /\ result.path =
              IF rename.state = "ok" THEN rename.to ELSE rename.from
         /\ rename.state = "ok" => result.path \in PdfPaths

\* a call without a format has resolved with a '.pdf' path
C18_Witness ==
  /\ requestedType = Undefined
  /\ printOption = "PDF"
  /\ rename.state = "ok"
  /\ result = Resolved("/tmp/guid.pdf")

---------------------------------------------------------------------------
(* The filters of the asset list: Spec *)

\* the operations on the form that fill one field and let the page settle
FillOps(id, value) ==
  <<FormOp("waitForSelector", id, ""), FormOp("af_clear", id, ""),
    FormOp("af_type", id, value), FormOp("af_blur", id, ""),
    FormOp("settle", id, "")>>

SubmitOps ==
  <<FormOp("af_scroll", "submit", ""), FormOp("af_click", "submit", "")>>

\* the three fills of exportAssetList, with the time zone handed to
\* #navigateToFasterReportPage
AssetListFills ==
  FillOps("f1", reportFilters[1].value)
    \o FillOps("f2", "Organization") \o FillOps("f3", "Department")

\* the print-options menu has been clicked, or is the next thing clicked
PrintMenuOpened ==
  /\ StageOf(pc) = "export"
  /\ Position(ExportSteps, pc) >= Position(ExportSteps, "ex_clickMenu")

\* C19: when exportAssetList opens the print-options menu, the operations
\* made on the filter form are the fill of Time Zone with a configured
\* time zone, of Primary Grouping with 'Organization' and of Secondary
\* Grouping with 'Department', in this order and each followed by the
\* settle pause and network-idle wait, and then the scroll to and the
\* click on the submit control.
C19_AssetListFilters ==
  (flow = "assetList" /\ PrintMenuOpened) =>
    /\ reportFilters[1].value \in ReportTimeZone
    /\ formOps = AssetListFills \o SubmitOps

\* what remains of C19 when the submit control may be missing: the three
\* fills are made as stated, and the form is submitted or not touched
C19_AssetListFills ==
  (flow = "assetList" /\ PrintMenuOpened) =>
    /\ reportFilters[1].value \in ReportTimeZone
    /\ formOps \in {AssetListFills \o SubmitOps, AssetListFills}

---------------------------------------------------------------------------
(* The timeout: Spec *)

\* a wait is issued by this step
IssuesWait ==
  /\ pc' # pc
  /\ pc' \in WaitSteps
  /\ pc' = "af_settle" => SeveralFilters(reportFilters)

Stores(t) ==
  ENABLED (/\ SetTimeoutMillis(t)
           /\ timeoutMillis' = t
           /\ pc' = pc
           /\ result' = result
           /\ browser' = browser
           /\ optionsTimeout' = optionsTimeout
           /\ retries' = retries)

---------------------------------------------------------------------------
(* The export result and the poll loop *)

\* a step of the executor of the promise, from createCDPSession to the
\* finally: one that moves on, loops in the poll loop, or throws
ExecutorActs ==
  /\ pc \in Range(ExportSteps) \ {"ex_front", "ex_idle0", "ex_title"}
  /\ pc' # pc \/ pollIters' # pollIters

\* the callback of fs.rename is called
RenameCallbackActs ==
  /\ rename.state = "pending"
  /\ rename'.state \in {"ok", "error"}

\* C21: the export result is resolved only by the callback of fs.rename
\* that the download-progress handler starts, with one of the two paths of
\* that rename; no step of the executor, the poll loop and the finally
\* after it included, resolves or rejects the result.
C21_ResolvedOnlyByHandler ==
  [][/\ (result.state # "resolved" /\ result'.state = "resolved")
          => /\ RenameCallbackActs
             /\ download = "completed"
             /\ result'.path \in {rename.from, rename.to}
     /\ ExecutorActs => result' = result]_vars

\* the poll loop has gone round and ended, the browser is closed, and the
\* result was resolved by the callback of the rename
C21_Witness ==
  /\ pc = "done"
  /\ pollIters > 0
  /\ rename.state = "ok"
  /\ result = Resolved(rename.to)

\* the timeouts tried on the executor alone: one more, that leaves budget
\* after a round of the poll loop
ExecutorTimeoutChoices ==
  TimeoutChoices \cup {(MaxTimeoutSteps + 2) * TimeoutStep}

\* the executor of the promise of #exportFasterReport, from its first
\* await, on an open browser and with any configuration
InitExecutor ==
  /\ downloadFolderPath \in ExistingFolders
  /\ timeoutMillis \in ExecutorTimeoutChoices
  /\ timeZone = "Eastern"
  /\ pc = "ex_cdp"
  /\ browser = "open"
  /\ optionsTimeout = 0
  /\ calls = <<>>
  /\ reportFilters = <<>>
  /\ labelElements = FullPage
  /\ InitCall
  /\ NoLookup
  /\ NoSchedule

NextExecutor ==
  \/ \E folder \in ExistingFolders \cup {MissingFolder} :
       SetDownloadFolderPath(folder)
  \/ \E t \in ExecutorTimeoutChoices : SetTimeoutMillis(t)
  \/ ExecutorStep
  \/ ExecutorSetBehavior
  \/ ExecutorOn
  \/ ExecutorFindElement
  \/ ExecutorSetStarted
  \/ ExecutorClickOption
  \/ ExecutorInitRetries
  \/ ExecutorPoll
  \/ ExecutorFinally
  \/ DownloadCompleted
  \/ DownloadCanceled
  \/ RenameCallback

\* the event loop runs the continuation of the executor when the delay of
\* the poll loop or browser.close() has settled
SpecExecutorFair ==
  /\ InitExecutor
  /\ [][NextExecutor]_vars
  /\ WF_vars(ExecutorPoll)
  /\ WF_vars(ExecutorFinally)

\* the poll loop makes its check: it goes round once more or leaves
PollChecks ==
  /\ pc = "ex_poll"
  /\ pc' # pc \/ pollIters' # pollIters

\* C22: once the handler has handled a 'completed' or 'canceled' event,
\* the next check of the poll loop leaves the loop with the retries that
\* remain untouched; the step after the loop closes the browser, whether
\* the loop ended on an event or on an exhausted budget; and a call that
\* has reached the poll loop always gets its browser closed.
C22_LoopEndsAndBrowserCloses ==
  /\ [][/\ (PollChecks /\ download \in {"completed", "canceled"})
            => /\ pc' = "ex_finally"
               /\ retries' = retries
               /\ pollIters' = pollIters
        /\ (PollChecks /\ retries <= 0) => pc' = "ex_finally"
        /\ (pc = "ex_finally" /\ pc' # pc)
            => /\ browser = "open"
               /\ browser' = "closed"]_vars
  /\ (pc = "ex_poll") ~> (browser = "closed")

\* the loop has ended on a handled event with budget left, and the browser
\* has been closed
C22_Witness ==
  /\ pc = "done"
  /\ browser = "closed"
  /\ download = "canceled"
  /\ pollIters > 0
  /\ retries > 0

---------------------------------------------------------------------------
(* The download is captured from the click on *)

\* Browser.setDownloadBehavior has been sent with a download folder, and
\* the download-progress handler is registered
CaptureReady ==
  /\ browserDownloadPath \in ExistingFolders
  /\ handlerOn

\* C23: when the entry of the format is about to be clicked, and from the
\* click on, the download behaviour has been set with a download folder
\* and the download-progress handler is registered: while the download the
\* click started is in progress in the open browser, its events reach the
\* handler.
C23_CaptureReadyBeforeClick ==
  /\ pc \in {"ex_scroll", "ex_clickOption"} => CaptureReady
  /\ download # "none" => CaptureReady
  /\ printOption # None => CaptureReady

\* the click started a download, and the handler saw it complete in the
\* folder the browser was given
C23_Witness ==
  /\ download = "completed"
  /\ handlerOn
  /\ PathJoin(browserDownloadPath, Guid) \in files

---------------------------------------------------------------------------
(* Filter population: SpecFilters *)

\* the operations that filling the k-th filter leaves in formOps
FilterOps(k) ==
  SubSeq(FillOps(FindInputId(labelTextToInputId, reportFilters[k].label),
                 reportFilters[k].value),
         1, OpsPerFilter)

\* the operations of the filters before the k-th, all filled
RECURSIVE FilledBefore(_)
FilledBefore(k) ==
  IF k <= 1 THEN <<>> ELSE FilledBefore(k - 1) \o FilterOps(k - 1)

\* the loop over the filters has looked the k-th filter up
HasLookedUp(k) ==
  \/ k < filterIdx
  \/ k = filterIdx /\ pc # "af_lookup"

\* C24: when the k-th requested filter matches no label text of the page,
\* the call fails with the filter-not-found error as soon as that filter
\* is looked up: the filters before it have been filled, each completely
\* and in order, nothing has been done on the form for the k-th filter,
\* no later filter is looked up, and the submit control is neither
\* scrolled to nor clicked.
C24_FailsFastOnMissingLabel ==
  \A k \in 1..Len(reportFilters) :
    (HasLookedUp(k) /\ MatchingEntries(reportFilters[k].label) = {})
      => /\ pc = "done"
         /\ result = FilterNotFound
         /\ filterIdx = k
         /\ formOps = FilledBefore(k)
         /\ CountOps(formOps, "af_scroll") = 0
         /\ CountOps(formOps, "af_click") = 0

\* the second of two filters has no label: the first was filled and
\* settled, and the call has failed
C24_Witness ==
  /\ pc = "done"
  /\ result = FilterNotFound
  /\ filterIdx = 2
  /\ MatchingEntries(reportFilters[2].label) = {}
  /\ Len(formOps) = 5
  /\ formOps[5].op = "settle"

\* the places in document order of the label elements whose text contains
\* s
MatchingLabels(s) ==
  { i \in 1..Len(labelElements) :
      /\ labelElements[i].text # NullText
      /\ IsSubstring(s, labelElements[i].text) }

\* C25: for every list of page labels and every search text, the field
\* chosen is the one named by the first label element in document order
\* whose text contains the search text, also when several labels of the
\* page have the same text.
C25_FirstLabelInDocumentOrder ==
  LookedUp =>
    LET M == MatchingLabels(reportFilters[filterIdx].label) IN
    (M # {} /\ labelElements[Least(M)].for # NullFor)
      => inputId = labelElements[Least(M)].for

\* the steps of the loop body that wait for, clear, type into, blur and
\* settle the field inputId
FieldSteps == {"af_waitInput", "af_clear", "af_type", "af_blur", "af_settle"}

\* C26: every requested filter that has been looked up either resolved to
\* a field identifier that is not empty, or made the call fail with the
\* filter-not-found error with nothing done on the form for it (so when
\* the first matching entry of the index comes from a label without a
\* 'for'); no field is ever waited for, cleared or typed into with an
\* empty identifier.
C26_NoEmptyFieldIdentifier ==
  /\ \A k \in 1..Len(reportFilters) :
       HasLookedUp(k) =>
         LET M == MatchingEntries(reportFilters[k].label) IN
         \/ /\ M # {}
            /\ labelTextToInputId[Least(M)].id # NoField
         \/ /\ pc = "done"
            /\ result = FilterNotFound
            /\ filterIdx = k
            /\ formOps = FilledBefore(k)
  /\ \A i \in 1..Len(formOps) : formOps[i].id # NoField
  /\ pc \in FieldSteps => inputId # NoField

\* the first label that matches the second filter has no 'for': the call
\* has failed with the first filter filled and nothing done for the second
C26_Witness ==
  /\ pc = "done"
  /\ result = FilterNotFound
  /\ filterIdx = 2
  /\ LET M == MatchingEntries(reportFilters[2].label) IN
       /\ M # {}
       /\ labelTextToInputId[Least(M)].id = NoField
  /\ Len(formOps) = 5

\* C27: whenever applyReportFilters returns, for any filter mapping, the
\* empty one included, the operations on the form are the fills of all
\* the filters followed by the scroll to and one click on the submit
\* control, the click being the last of them: the pause and the
\* network-idle wait that follow add none.
C27_SubmittedOnceOnReturn ==
  pc = "af_return" =>
    /\ CountOps(formOps, "af_click") = 1
    /\ formOps = FilledBefore(Len(reportFilters) + 1) \o SubmitOps

---------------------------------------------------------------------------
(* The release notes after the login: Spec *)

\* C28: when #getLoggedInFasterPage is about to return its browser and
\* page, the page is not on the release notes: whenever the base URL or
\* the login has led there, the continue control has been clicked and the
\* network-idle wait made.
C28_NeverReturnsOnReleaseNotes ==
  pc = "lg_return" => ~onReleaseNotes

---------------------------------------------------------------------------
(* The URL of the report: Spec *)

\* URLSearchParams.getAll: the values of the entries of a key, in order
RECURSIVE GetAll(_, _)
GetAll(query, key) ==
  IF query = <<>> THEN <<>>
  ELSE (IF Head(query).key = key THEN <<Head(query).value>> ELSE <<>>)
         \o GetAll(Tail(query), key)

\* url is the report-viewer path with one query parameter R holding the
\* report key, one parameter per entry of the mapping holding its value,
\* and nothing else
IsReportUrlOf(url, reportKey, reportParameters) ==
  /\ url.path = ReportViewerPath
  /\ GetAll(url.query, "R") = <<reportKey>>
  /\ \A i \in 1..Len(reportParameters) :
       GetAll(url.query, reportParameters[i].key)
         = <<reportParameters[i].value>>
  /\ Len(url.query) = 1 + Len(reportParameters)

\* the report keys and the parameter mappings (Object.entries, so with
\* keys that differ) that the export methods are written with
ReportKeys == { ReportKeyOf(f) : f \in {"partOrder", "assetList"} }
ParameterKeys == {"OrderID", "ReportType", "Domain", "Parent"}
ParameterMappings ==
  { m \in SeqsUpTo([key : ParameterKeys, value : {"S", "Assets"}],
                   MaxParameters) :
      \A i, j \in 1..Len(m) : i # j => m[i].key # m[j].key }

\* C29: the URL that #navigateToFasterReportPage navigates to is the
\* report-viewer path with the query parameter R equal to the report key
\* and, for each entry of the parameter mapping, a query parameter with
\* that key and value: for the key and mapping of the export method that
\* is running, and for every report key and every small mapping of the
\* parameter names in use.
C29_ReportUrl ==
  reportUrl # NoUrl =>
    /\ IsReportUrlOf(reportUrl, ReportKeyOf(flow), ReportParametersOf(flow))
    /\ pc = "nv_delay" =>
         \A reportKey \in ReportKeys, m \in ParameterMappings :
           IsReportUrlOf(ReportUrl(reportKey, m), reportKey, m)

\* exportPartOrderPrint has navigated to its report
C29_Witness ==
  /\ pc = "nv_delay"
  /\ flow = "partOrder"
  /\ reportUrl.query =
       <<[key |-> "R", value |-> "/Part Order Print/W299 - OrderPrint"],
         [key |-> "OrderID", value |-> "1234"],
         [key |-> "ReportType", value |-> "S"],
         [key |-> "Domain", value |-> "Inventory"]>>

---------------------------------------------------------------------------
(* The catches of the methods: Spec *)

\* the failures that the steps of each method can end in
StageFailures ==
  [login |-> LoginFindErrors \cup {BrowserError},
   navigate |-> {BrowserError},
   filters |-> {BrowserError, "No filter found with label",
                "No element found with id"},
   workOrder |-> {BrowserError, "Unable to locate print link.",
                  TargetTimeout},
   export |-> {BrowserError}]

\* the call was rejected by a failure under one of the catches: in
\* #getLoggedInFasterPage, #navigateToFasterReportPage (applyReportFilters
\* included) or #exportWorkOrderPrint
FailedUnderCatch ==
  /\ pc = "done"
  /\ result.state = "rejected"
  /\ \/ failedAt \in {"login", "navigate", "filters", "workOrder"}
     \/ flow = "workOrder"

\* C30: when a step of session acquisition, report navigation, filter
\* population or the work-order flow has failed, the error the caller has
\* received is the failure of that step, also when browser.close() has
\* thrown in the catch, and by then close has been called (once) on the
\* browser of the call; only a failed launch leaves no browser to close.
C30_ClosedAndOriginalError ==
  /\ FailedUnderCatch =>
       /\ result.error \in StageFailures[failedAt]
       /\ result.error # CloseError
       /\ browser # "none" => (browser = "closed" /\ closeCount = 1)
       /\ browser = "none" => (failedAt = "login" /\ closeCount = 0)
  /\ closeThrew => (FailedUnderCatch /\ browser = "closed")

\* the field of a filter was not found, and browser.close() threw in the
\* catch of #navigateToFasterReportPage: the caller has the first error
C30_Witness ==
  /\ pc = "done"
  /\ failedAt = "filters"
  /\ result = Rejected("No element found with id")
  /\ closeThrew
  /\ closeCount = 1

---------------------------------------------------------------------------
(* One close per call: Spec *)

\* C33: browser.close() is called at most once in an export call, on
\* every path: a completed or canceled download, an exhausted poll budget,
\* an error thrown; so too in the work-order flow, where the finally of
\* #exportFasterReport and the catch of #exportWorkOrderPrint both close.
\* It is called only on a browser that was launched.
C33_ClosedAtMostOnce ==
  /\ closeCount <= 1
  /\ closeCount = 1 <=> browser = "closed"

\* the work-order flow has thrown inside the executor of the export: the
\* finally has closed the browser, and the catch has not run
C33_Witness ==
  /\ flow = "workOrder"
  /\ pc = "done"
  /\ failedAt = "export"
  /\ unhandled # None
  /\ result = Pending
  /\ closeCount = 1

---------------------------------------------------------------------------
(* The folder of the resolved path: Spec *)

\* the paths of a download with the guid, renamed or not, in the folder
PathsIn(folder) ==
  {PathJoin(folder, Guid)} \cup
    { PathJoin(folder, Guid) \o DotExtension[t] : t \in ReportExportType }

\* C34: however calls of setDownloadFolderPath interleave with an export in
\* flight on the same exporter, the path the export resolves with lies in
\* the folder that was given to the browser as the download path of that
\* export.
C34_ResolvedInBrowserFolder ==
  result.state = "resolved" => result.path \in PathsIn(browserDownloadPath)

---------------------------------------------------------------------------
(* The time zone of an export: Spec *)

\* the values given for the 'Time Zone' filter
TimeZoneValues(filters) ==
  { filters[i].value :
      i \in { j \in DOMAIN filters : filters[j].label = <<"t">> } }

\* C35: the value an export fills in for the 'Time Zone' filter is the
\* time zone the exporter had when the export method was called; a
\* setTimeZone while the export is in flight, during its login, does not
\* change it.
C35_TimeZoneOfTheCall ==
  [][(pc = "lg_return" /\ pc' = "nv_goto")
       => TimeZoneValues(reportFilters') = {calledTimeZone}]_vars

---------------------------------------------------------------------------
(* Download events before the click: SpecEarlyEvents *)

\* the guid of a download the browser has started by itself
EarlyGuid == "early"

\* a 'completed' event of a download that the click has not started: the
\* handler takes it as it takes any other
DownloadCompletedEarly ==
  /\ download = "none"
  /\ browser = "open"
  /\ handlerOn
  /\ files' = files \cup {PathJoin(browserDownloadPath, EarlyGuid)}
  /\ LET downloadedFilePath == PathJoin(downloadFolderPath, EarlyGuid)
         newFilePath ==
           downloadedFilePath \o "." \o reportExportTypes[exportType]
     IN rename' = [state |-> "pending", from |-> downloadedFilePath,
                   to |-> newFilePath]
  /\ downloadStarted' = FALSE
  /\ UNCHANGED <<cfgVars, folderError, reportUrl, onReleaseNotes,
                 calledTimeZone, pageVars, concurrentVars, lookupVars,
                 scheduleVars, callVars, browserVars, handlerOn, printOption,
                 browserDownloadPath, retries, pollBudget, pollIters,
                 download, filterVars>>

\* a 'canceled' event of such a download
DownloadCanceledEarly ==
  /\ download = "none"
  /\ browser = "open"
  /\ handlerOn
  /\ downloadStarted' = FALSE
  /\ unhandled' = "Download cancelled."
  /\ UNCHANGED <<cfgVars, folderError, reportUrl, onReleaseNotes,
                 calledTimeZone, pageVars, concurrentVars, lookupVars,
                 scheduleVars, pc, flow, requestedType, exportType, result,
                 failedAt, browserVars, handlerOn, printOption,
                 browserDownloadPath, retries, pollBudget, pollIters,
                 download, rename, files, filterVars>>

NextEarlyEvents ==
  \/ NextExecutor
  \/ DownloadCompletedEarly
  \/ DownloadCanceledEarly

SpecEarlyEvents == InitExecutor /\ [][NextEarlyEvents]_vars

\* C36: an export is resolved only by a 'completed' event that comes
\* after the click on the entry of the format, with the path of that
\* download; a 'completed' or 'canceled' event before the click does not
\* resolve it, and does not keep the poll loop from waiting for the
\* download of the click: while that download is in progress the loop
\* still has its flag.
C36_OnlyTheDownloadOfTheClick ==
  /\ result.state = "resolved"
       => /\ download = "completed"
          /\ \E folder \in ExistingFolders : result.path \in PathsIn(folder)
  /\ download = "inProgress" => downloadStarted

---------------------------------------------------------------------------
(* getElementOnPageBySelector: SpecLookup *)

\* the largest maxRetries tried; the default, maxRetries = 5, is among
\* them
MaxRetries == 6

\* what page.$(selector) gives: null, or the handle of the element
Null == "null"
ElementHandle == "element"

\* await delay(100), as an entry of the record of what was done
DelayOp == "delay"

\* an exporter at rest, with no call under way
InitAtRest ==
  /\ downloadFolderPath = "/tmp"
  /\ timeoutMillis = defaultDelayMillis
  /\ timeZone = "Eastern"
  /\ pc = "idle"
  /\ browser = "none"
  /\ optionsTimeout = 0
  /\ calls = <<>>
  /\ reportFilters = <<>>
  /\ labelElements = FullPage
  /\ InitCall

\* getElementOnPageBySelector(page, selector, maxRetries) is called:
\* let element (undefined), retry = 0
InitLookup ==
  /\ InitAtRest
  /\ NoSchedule
  /\ maxRetries \in 0..MaxRetries
  /\ retry = 0
  /\ element = Undefined
  /\ returned = None
  /\ lookupOps = <<>>
  /\ lookupPc = "for"

LookupUnchanged ==
  UNCHANGED <<cfgVars, folderError, onReleaseNotes, reportUrl,
              calledTimeZone, callVars, browserVars, captureVars,
              filterVars, pageVars, concurrentVars, scheduleVars,
              maxRetries>>

\* retry < maxRetries, and if (retry > 0); when the loop is over,
\* return element
GetElementFor ==
  /\ lookupPc = "for"
  /\ IF retry < maxRetries
       THEN /\ lookupPc' = IF retry > 0 THEN "delay" ELSE "lookup"
            /\ UNCHANGED returned
       ELSE /\ lookupPc' = "returned"
            /\ returned' = element
  /\ UNCHANGED <<retry, element, lookupOps>>
  /\ LookupUnchanged

\* await delay(100)
GetElementDelay ==
  /\ lookupPc = "delay"
  /\ lookupPc' = "lookup"
  /\ lookupOps' = Append(lookupOps, DelayOp)
  /\ UNCHANGED <<retry, element, returned>>
  /\ LookupUnchanged

\* element = await page.$(selector): break and return on an element,
\* retry += 1 on null; a page.$ that throws rejects the call
GetElementLookup ==
  /\ lookupPc = "lookup"
  /\ \/ \E found \in {Null, ElementHandle} :
          /\ element' = found
          /\ lookupOps' = Append(lookupOps, found)
          /\ IF found # Null
               THEN /\ lookupPc' = "returned"
                    /\ returned' = found
                    /\ UNCHANGED retry
               ELSE /\ lookupPc' = "for"
                    /\ retry' = retry + 1
                    /\ UNCHANGED returned
     \/ /\ lookupPc' = "returned"
        /\ returned' = BrowserError
        /\ UNCHANGED <<retry, element, lookupOps>>
  /\ LookupUnchanged

NextLookup ==
  \/ GetElementFor
  \/ GetElementDelay
  \/ GetElementLookup

SpecLookup == InitLookup /\ [][NextLookup]_vars

\* the places in the record of the lookups made
LookupsMade == { i \in DOMAIN lookupOps : lookupOps[i] # DelayOp }

\* C37: getElementOnPageBySelector makes at most maxRetries lookups, with
\* a pause before every lookup but the first; it stops at the first lookup
\* that finds the element, returns that element and makes no lookup after
\* it; and it returns null when every lookup has found nothing, or when
\* maxRetries is 0.
C37_LookupsAndReturn ==
  /\ Cardinality(LookupsMade) <= maxRetries
  /\ \A i \in DOMAIN lookupOps :
       IF lookupOps[i] = DelayOp
         THEN i > 1 /\ lookupOps[i - 1] # DelayOp
         ELSE i = 1 \/ lookupOps[i - 1] = DelayOp
  /\ \A i \in LookupsMade :
       lookupOps[i] = ElementHandle => i = Len(lookupOps)
  /\ (lookupPc = "returned" /\ returned # BrowserError)
       => returned =
            IF \E i \in LookupsMade : lookupOps[i] = ElementHandle
              THEN ElementHandle
              ELSE Null

---------------------------------------------------------------------------
(* The check for the permissions message: SpecPermissions *)

PermissionError == "Report generation failed: insufficient permissions."

\* the revision of #exportFasterReport that, after the wait for the
\* network that follows the registration of the handler, finds 'You do not
\* have permissions to access the reports.' in the text of the body: it
\* throws inside the executor.  When the text is not there the executor
\* goes on to the print-options menu as ExecutorStep does.
ExecutorCheckPermissions ==
  /\ pc = "ex_idle1"
  /\ ExecutorThrow(PermissionError)
  /\ UNCHANGED <<cfgVars, folderError, reportUrl, onReleaseNotes,
                 calledTimeZone, pageVars, concurrentVars, lookupVars,
                 scheduleVars, handlerOn, printOption, browserDownloadPath,
                 downloadStarted, retries, pollBudget, pollIters, rename,
                 files, filterVars>>

NextPermissions ==
  \/ NextExecutor
  \/ ExecutorCheckPermissions

SpecPermissions == InitExecutor /\ [][NextPermissions]_vars

\* the step comes before the click on the print-options menu
BeforeMenuClick(step) ==
  \E i, j \in DOMAIN ExportSteps :
    /\ ExportSteps[i] = step
    /\ ExportSteps[j] = "ex_clickMenu"
    /\ i < j

\* C32: when the body of the report viewer contains 'You do not have
\* permissions to access the reports.', the export fails: the caller gets
\* the error 'Report generation failed: insufficient permissions.', the
\* print-options menu is not clicked, and the browser is closed.
C32_PermissionErrorFailsTheCall ==
  [][ExecutorCheckPermissions
       => /\ result' = Rejected(PermissionError)
          /\ BeforeMenuClick(pc)
          /\ pc' = "done"
          /\ browser' = "closed"
          /\ closeCount' = 1]_vars

---------------------------------------------------------------------------
(* exportScheduledReport: SpecScheduled *)

\* the most rows the table of scheduled reports has
MaxRows == 2

\* the page of the call, at the list of scheduled reports, and the page
\* that the 'Parameter' link of the row at a place opens
ListPage == [row |-> 0]
ParameterPage(i) == [row |-> i]

\* the texts of the name cells, as characters, and of the action links
ScheduleNames == {<<"a">>, <<" ", "a", " ">>, <<"b">>}
ActionLinks == {<<>>, <<"Edit">>, <<"Parameter">>, <<"Edit", "Parameter">>}

\* a row: whether 'td:nth-child(2) div span' is there, its text, and the
\* texts of 'td:nth-child(1) a'
ScheduleRows ==
  [span : {TRUE}, name : ScheduleNames, links : ActionLinks]
    \cup [span : {FALSE}, name : {<<>>}, links : ActionLinks]

\* String.prototype.trim
RECURSIVE trim(_)
trim(text) ==
  IF text = <<>> THEN text
  ELSE IF Head(text) = " " THEN trim(Tail(text))
  ELSE IF text[Len(text)] = " " THEN trim(SubSeq(text, 1, Len(text) - 1))
  ELSE text

ScheduledSteps ==
  <<"sr_goto", "sr_idle", "sr_rows", "sr_row", "sr_link", "sr_click",
    "sr_delay", "sr_idle2", "sr_pages", "sr_front", "sr_delay2", "sr_idle3",
    "sr_filters", "sr_export">>

\* the awaits of exportScheduledReport with no effect on the model but
\* that they settle or throw, and its delays
ScheduledPlain == {"sr_goto", "sr_idle", "sr_idle2", "sr_front", "sr_idle3"}
ScheduledPause == {"sr_delay", "sr_delay2"}

\* exportScheduledReport(scheduleName) when _getLoggedInFasterPage has
\* returned the browser and its page
InitScheduled ==
  /\ InitAtRest
  /\ NoLookup
  /\ scheduleName = <<"a">>
  /\ rows \in SeqsUpTo(ScheduleRows, MaxRows)
  /\ rowIdx = 0
  /\ linkIdx = 0
  /\ page = ListPage
  /\ browserPages = <<ListPage>>
  /\ filtered = {}

ScheduledUnchanged ==
  UNCHANGED <<cfgVars, folderError, onReleaseNotes, reportUrl,
              calledTimeZone, captureVars, filterVars, pageVars,
              concurrentVars, lookupVars, scheduleName, rows>>

\* the call of exportScheduledReport, up to the try: the login has
\* launched the browser and returned it with its page
StartScheduled ==
  /\ pc = "idle"
  /\ pc' = "sr_goto"
  /\ flow' = "scheduled"
  /\ browser' = "open"
  /\ UNCHANGED <<requestedType, exportType, result, unhandled, failedAt,
                 closeCount, closeThrew, rowIdx, linkIdx, page,
                 browserPages, filtered>>
  /\ ScheduledUnchanged

\* catch (error) { try { await browser.close() } catch {} throw error }
ScheduledCatch(err) == CloseAndThrow(err)

ScheduledStep ==
  /\ pc \in ScheduledPlain \cup ScheduledPause
  /\ \/ Goto(After(ScheduledSteps, pc))
     \/ /\ pc \in ScheduledPlain
        /\ ScheduledCatch(BrowserError)
  /\ UNCHANGED <<rowIdx, linkIdx, page, browserPages, filtered>>
  /\ ScheduledUnchanged

\* page.$$ of the rows of the table: the loop starts at the first row
ScheduledRows ==
  /\ pc = "sr_rows"
  /\ \/ /\ Goto("sr_row")
        /\ rowIdx' = 1
     \/ /\ ScheduledCatch(BrowserError)
        /\ UNCHANGED rowIdx
  /\ UNCHANGED <<linkIdx, page, browserPages, filtered>>
  /\ ScheduledUnchanged

\* one round of the loop over the rows, up to the links of a row whose
\* name is the schedule name: a row with no name element, or with another
\* name, is passed over; after the last row the method leaves the try
ScheduledRow ==
  /\ pc = "sr_row"
  /\ \/ IF rowIdx > Len(rows)
          THEN /\ Goto("sr_export")
               /\ UNCHANGED <<rowIdx, linkIdx>>
          ELSE LET reportNameElement == rows[rowIdx].span
                   reportNameText == trim(rows[rowIdx].name)
               IN IF reportNameElement /\ reportNameText = scheduleName
                    THEN /\ Goto("sr_link")
                         /\ linkIdx' = 1
                         /\ UNCHANGED rowIdx
                    ELSE /\ Goto("sr_row")
                         /\ rowIdx' = rowIdx + 1
                         /\ UNCHANGED linkIdx
     \/ /\ rowIdx <= Len(rows)
        /\ ScheduledCatch(BrowserError)
        /\ UNCHANGED <<rowIdx, linkIdx>>
  /\ UNCHANGED <<page, browserPages, filtered>>
  /\ ScheduledUnchanged

\* one round of the loop over the action links of the row: the link with
\* the text 'Parameter' is clicked; after the last link the loop over the
\* rows goes on
ScheduledLink ==
  /\ pc = "sr_link"
  /\ LET actionLinkElements == rows[rowIdx].links
     IN \/ IF linkIdx > Len(actionLinkElements)
             THEN /\ Goto("sr_row")
                  /\ rowIdx' = rowIdx + 1
                  /\ UNCHANGED linkIdx
             ELSE IF actionLinkElements[linkIdx] = "Parameter"
                    THEN /\ Goto("sr_click")
                         /\ UNCHANGED <<rowIdx, linkIdx>>
                    ELSE /\ Goto("sr_link")
                         /\ linkIdx' = linkIdx + 1
                         /\ UNCHANGED rowIdx
        \/ /\ linkIdx <= Len(actionLinkElements)
           /\ ScheduledCatch(BrowserError)
           /\ UNCHANGED <<rowIdx, linkIdx>>
  /\ UNCHANGED <<page, browserPages, filtered>>
  /\ ScheduledUnchanged

\* actionLinkElement.click(): the browser opens the page of the
\* parameters of the row
ScheduledClick ==
  /\ pc = "sr_click"
  /\ \/ /\ Goto("sr_delay")
        /\ browserPages' = Append(browserPages, ParameterPage(rowIdx))
     \/ /\ ScheduledCatch(BrowserError)
        /\ UNCHANGED browserPages
  /\ UNCHANGED <<rowIdx, linkIdx, page, filtered>>
  /\ ScheduledUnchanged

\* page = (await browser.pages()).at(-1)
ScheduledPages ==
  /\ pc = "sr_pages"
  /\ \/ /\ Goto("sr_front")
        /\ page' = browserPages[Len(browserPages)]
     \/ /\ ScheduledCatch(BrowserError)
        /\ UNCHANGED page
  /\ UNCHANGED <<rowIdx, linkIdx, browserPages, filtered>>
  /\ ScheduledUnchanged

\* applyReportFilters(page, { 'Start Date', 'End Date' }) returns or
\* throws; break leaves the loop over the links, and the loop over the
\* rows goes on
ScheduledFilters ==
  /\ pc = "sr_filters"
  /\ \/ /\ Goto("sr_row")
        /\ filtered' = filtered \cup {page}
        /\ rowIdx' = rowIdx + 1
     \/ /\ \E err \in {BrowserError, "No filter found with label"} :
             ScheduledCatch(err)
        /\ UNCHANGED <<filtered, rowIdx>>
  /\ UNCHANGED <<linkIdx, page, browserPages>>
  /\ ScheduledUnchanged

\* return await this.#exportFasterReport(browser, page, exportType)
ScheduledExport ==
  /\ pc = "sr_export"
  /\ Goto("ex_front")
  /\ UNCHANGED <<rowIdx, linkIdx, page, browserPages, filtered>>
  /\ ScheduledUnchanged

NextScheduled ==
  \/ StartScheduled
  \/ ScheduledStep
  \/ ScheduledRows
  \/ ScheduledRow
  \/ ScheduledLink
  \/ ScheduledClick
  \/ ScheduledPages
  \/ ScheduledFilters
  \/ ScheduledExport

SpecScheduled == InitScheduled /\ [][NextScheduled]_vars

\* the rows whose name is the schedule name
MatchingRows ==
  { i \in DOMAIN rows : rows[i].span /\ trim(rows[i].name) = scheduleName }

\* C31: exportScheduledReport comes to the export step only on the page
\* that the 'Parameter' action of a row named as the schedule has opened,
\* with the Start Date and End Date filters applied on it; when no row has
\* the name of the schedule the call fails with an error, and does not
\* export from the page of the list of scheduled reports.
C31_ExportsFromParameterPage ==
  /\ (flow = "scheduled" /\ pc = "ex_front")
       => /\ page # ListPage
          /\ page.row \in MatchingRows
          /\ page \in filtered
  /\ (flow = "scheduled" /\ MatchingRows = {})
       => pc \notin {"sr_export", "ex_front"}

===========================================================================
